---- MODULE Spec2Model ----
(***************************************************************************)
(* A model of quicktag's tag scanner (src/scanner.rs) and of the binary    *)
(* decoding it rests on (src/text.rs): the per-entry scanner scan_file,    *)
(* the cache loader load_tag_cache with its parallel package workers, the  *)
(* reference transform transform_tag_cache, the raw-string blob reader,    *)
(* the text decoder, the pointer decoders and the string map; and of the   *)
(* hex view's array ranges (src/gui/hexview.rs).                           *)
(*                                                                         *)
(* The specifications share the variables:                                 *)
(*   SpecScan       scan_file applied to bounded buffers and contexts      *)
(*   SpecTransform  transform_tag_cache applied to bounded scan maps       *)
(*   Spec           load_tag_cache, from the open of the cache file to     *)
(*                  its return, exit or panic                              *)
(*   SpecMerge      the workers' entry loops and the merge, for entry      *)
(*                  indices of any size                                    *)
(*   SpecBlob       read_raw_string_blob applied to bounded blobs          *)
(*   SpecText       decode_text applied to bounded buffers and shifts      *)
(*   SpecPointer    _TablePointer and _RelPointer applied to streams       *)
(*   SpecStrings    create_stringmap applied to bounded archives           *)
(*   SpecReload     load_tag_cache called again on what a call left        *)
(*   SpecHex        TagHexView::new and show applied to bounded buffers    *)
(***************************************************************************)
EXTENDS Integers, Sequences, FiniteSets, TLC

VARIABLES
    version,                \* package_manager().version
    hash64_table,           \* package_manager().hash64_table: TagHash64 -> hash32
    mtime,                  \* modification time of package_dir; -1 when metadata fails
    disk,                   \* the cache file tags_<id>.cache
    pc,                     \* position of load_tag_cache's thread
    status,                 \* SCANNER_PROGRESS
    scanner_context,        \* the ScannerContext shared by the workers
    wpc,                    \* position of each package's worker closure
    all_tags,               \* per package: the entries still to scan, sorted
    results,                \* per package: the closure's `results` map
    current_package,        \* per package: the closure's `current_package`
    cache,                  \* the merged IntMap<TagHash, ScanResult>
    direct_reference_cache, \* transform_tag_cache's reverse mapping
    new_cache,              \* transform_tag_cache's TagCache under construction
    todo,                   \* keys the running loop of the transform has yet to visit
    returned,               \* <<the TagCache load_tag_cache returned>>, <<>> before
    writes,                 \* completed writes of the cache file in this run
    log,                    \* kinds of the messages logged in this run (info!, warn!, error!, panics)
    unread,                 \* keys of the entries whose read failed in this run
    archive,                \* the package files: the base archive and its one deviation
    args,                   \* the other arguments of the function a specification applies
    data,                   \* the input buffer of the function a specification applies
    r                       \* its result

vars == <<version, hash64_table, mtime, disk, pc, status, scanner_context, wpc,
          all_tags, results, current_package, cache, direct_reference_cache,
          new_cache, todo, returned, writes, log, unread, archive, args, data, r>>

----------------------------------------------------------------------------
(* Bounds of the model *)

\* longest buffer handed to scan_file in SpecScan
MaxLen == 8
\* package ids are 1..NumPackages
NumPackages == 2
\* entries per package are 0..NumEntries-1
NumEntries == 2
\* modification times are 0..MaxTime
MaxTime == 1
\* most direct references (32-bit plus 64-bit) of the scan map in SpecTransform
MaxRefs == 3
\* longest content of a raw-string blob in SpecBlob
MaxBlob == 4
\* longest buffer handed to decode_text in SpecText
MaxText == 4
\* most bytes after the pointer fields of a SpecPointer stream
MaxTail == 8
\* most string containers of the archive in SpecStrings
MaxContainers == 2
\* largest scan map whose gather loop is explored in every iteration order; a
\* larger map is iterated in ascending order of its keys
MaxFreeOrder == 4

----------------------------------------------------------------------------
(* Program constants.  A u32 or u64 of the program is the tuple of its bytes,
   most significant first, so that byte order and width stay visible. *)

\* TagCache::default().version
CurrentVersion == 3
\* 0x80800065, the marker of an embedded raw-string blob
RawStringMagic == <<128, 128, 0, 101>>
\* FNV1_BASE = 0x811c9dc5, the hash of the empty byte sequence
FNV1_BASE == <<129, 28, 157, 197>>
\* u64::MAX, the offset of the parent reference injected for legacy entries;
\* it stands above every offset a buffer of the model has
U64Max == 2147483647


----------------------------------------------------------------------------
(* Identifiers (destiny_pkg::TagHash as scanner.rs uses it) *)

\* TagHash::new(pkg_id, t as u16) = 0x80800000 + (pkg_id << 13) + index, the
\* index truncated to 16 bits by the cast
TagHashNew(pkg_id, t) ==
    LET x == 8388608 + pkg_id * 8192 + (t % 65536)
    IN  <<(128 + x \div 16777216) % 256, (x \div 65536) % 256, (x \div 256) % 256, x % 256>>

\* TagHash::is_pkg_file: 0x80800000 ..= 0x81ffffff
IsPkgFile(hash) == (hash[1] = 128 /\ hash[2] >= 128) \/ hash[1] = 129

PackageVersions == {"DestinyTheTakenKing", "DestinyRiseOfIron", "Destiny2Lightfall"}

\* PackageVersion::is_d1
IsD1(v) == v \in {"DestinyTheTakenKing", "DestinyRiseOfIron"}

\* create_scanner_context's byte order
EndianOf(v) == IF v = "DestinyTheTakenKing" THEN "Big" ELSE "Little"

Packages == 1..NumPackages
Entries == 0..(NumEntries - 1)

\* the two 64-bit identifiers of the model: 0x20_00000020 and 0x20_00000000
Hash64s == {<<0, 0, 0, 32, 0, 0, 0, 32>>, <<0, 0, 0, 32, 0, 0, 0, 0>>}

----------------------------------------------------------------------------
(* ScanResult *)

\* ScanResult::default()
DefaultScanResult ==
    [successful |-> TRUE, file_hashes |-> <<>>, file_hashes64 |-> <<>>,
     string_hashes |-> <<>>, raw_strings |-> <<>>, references |-> <<>>]

\* TagCache::default()
DefaultTagCache ==
    [timestamp |-> 0, version |-> CurrentVersion, hashes |-> <<>>]

----------------------------------------------------------------------------
(* scan_file *)

\* util::u32_from_endian on the 4 bytes at offset off
U32FromEndian(endian, d, off) ==
    IF endian = "Big"
    THEN <<d[off + 1], d[off + 2], d[off + 3], d[off + 4]>>
    ELSE <<d[off + 4], d[off + 3], d[off + 2], d[off + 1]>>

\* util::u64_from_endian on the 8 bytes at offset off
U64FromEndian(endian, d, off) ==
    IF endian = "Big"
    THEN U32FromEndian("Big", d, off) \o U32FromEndian("Big", d, off + 4)
    ELSE U32FromEndian("Little", d, off + 4) \o U32FromEndian("Little", d, off)

\* SplitOnNull that pushes the collected string at every null byte, empty or not
RECURSIVE SplitOnNullKeepEmpty(_, _, _, _, _, _)
SplitOnNullKeepEmpty(buffer, i, s, string_start, base, strings) ==
    IF i > Len(buffer)
    THEN IF s # <<>> THEN Append(strings, <<base + string_start, s>>) ELSE strings
    ELSE IF buffer[i] = 0
         THEN SplitOnNullKeepEmpty(buffer, i + 1, <<>>, i, base,
                                   Append(strings, <<base + string_start, s>>))
         ELSE SplitOnNullKeepEmpty(buffer, i + 1, Append(s, buffer[i]), string_start,
                                   base, strings)

\* the null-split loop of read_raw_string_blob over buffer[i..], with the
\* string collected so far in s and its start in string_start
RECURSIVE SplitOnNull(_, _, _, _, _, _)
SplitOnNull(buffer, i, s, string_start, base, strings) ==
    IF i > Len(buffer)
    THEN IF s # <<>> THEN Append(strings, <<base + string_start, s>>) ELSE strings
    ELSE IF buffer[i] = 0
         THEN SplitOnNull(buffer, i + 1, <<>>, i, base,
                          IF s # <<>> THEN Append(strings, <<base + string_start, s>>)
                                      ELSE strings)
         ELSE SplitOnNull(buffer, i + 1, Append(s, buffer[i]), string_start, base, strings)

\* the length prefix read_raw_string_blob reads after the marker at offset
\* (big-endian u32 for the legacy generation, little-endian u64 otherwise);
\* <<>> when the read is short
BufferSize(d, offset, d1) ==
    IF offset + 4 + (IF d1 THEN 4 ELSE 8) > Len(d) THEN <<>>
    ELSE IF d1 THEN U32FromEndian("Big", d, offset + 4)
         ELSE U64FromEndian("Little", d, offset + 4)

\* vec![0u8; buffer_size as usize] panics (capacity overflow) for a length
\* above isize::MAX, before any byte of the buffer is read
BlobPanics(d, offset, d1) ==
    LET size == BufferSize(d, offset, d1)
    IN  Len(size) = 8 /\ size[1] >= 128

\* a length as a number: its two low bytes when the others are zero, and
\* otherwise a length no buffer of the model has
SizeOf(size) ==
    IF \A k \in 1..(Len(size) - 2) : size[k] = 0
    THEN size[Len(size) - 1] * 256 + size[Len(size)]
    ELSE 65536

\* read_raw_string_blob: the length-prefixed buffer after the marker at offset,
\* split on null bytes; <<>> when a read is short
ReadRawStringBlob(d, offset, d1) ==
    LET base == offset + 4 + (IF d1 THEN 4 ELSE 8)
        size == BufferSize(d, offset, d1)
    IN  IF size = <<>> \/ base + SizeOf(size) > Len(d)
        THEN <<>>
        ELSE SplitOnNull(SubSeq(d, base + 1, base + SizeOf(size)), 1, <<>>, 0, base, <<>>)

RECURSIVE Seconds(_)
Seconds(pairs) == IF pairs = <<>> THEN <<>> ELSE <<Head(pairs)[2]>> \o Seconds(Tail(pairs))

\* ScanChunk4 without the test against the context's valid_file_hashes
ScanChunk4NoContextTest(context, d, i, acc) ==
    LET value == U32FromEndian(context.endian, d, i * 4)
    IN  IF IsPkgFile(value)
        THEN [acc EXCEPT !.file_hashes = Append(@, [offset |-> i * 4, hash |-> value])]
        ELSE acc

\* the body of scan_file's first loop for chunk i (bytes 4i .. 4i+3)
ScanChunk4(context, d, i, acc) ==
    LET value == U32FromEndian(context.endian, d, i * 4)
        offset == i * 4
        a1 == IF IsPkgFile(value) /\ value \in context.valid_file_hashes
              THEN [acc EXCEPT !.file_hashes = Append(@, [offset |-> offset, hash |-> value])]
              ELSE acc
        a2 == IF value = RawStringMagic
              THEN [a1 EXCEPT !.raw_strings =
                        @ \o Seconds(ReadRawStringBlob(d, offset, IsD1(version)))]
              ELSE a1
    IN  IF value # FNV1_BASE /\ value \in context.known_string_hashes
        THEN [a2 EXCEPT !.string_hashes = Append(@, [offset |-> offset, hash |-> value])]
        ELSE a2

\* the body of scan_file's second loop for chunk i (bytes 8i .. 8i+7)
ScanChunk8(context, d, i, acc) ==
    LET value == U64FromEndian(context.endian, d, i * 8)
    IN  IF value \in context.valid_file_hashes64
        THEN [acc EXCEPT !.file_hashes64 = Append(@, [offset |-> i * 8, hash |-> value])]
        ELSE acc

\* data.chunks_exact(4).enumerate(): chunks 0 .. len/4 - 1, in order
RECURSIVE Loop4(_, _, _, _)
Loop4(context, d, i, acc) ==
    IF i >= Len(d) \div 4 THEN acc
    ELSE Loop4(context, d, i + 1, ScanChunk4(context, d, i, acc))

\* data.chunks_exact(8).enumerate()
RECURSIVE Loop8(_, _, _, _)
Loop8(context, d, i, acc) ==
    IF i >= Len(d) \div 8 THEN acc
    ELSE Loop8(context, d, i + 1, ScanChunk8(context, d, i, acc))

\* scan_file(context, data)
ScanFile(context, d) == Loop8(context, d, 0, Loop4(context, d, 0, DefaultScanResult))

\* scan_file panics when a raw-string marker is followed by an over-large length
ScanFilePanics(context, d) ==
    \E i \in 0..(Len(d) \div 4 - 1) :
        /\ U32FromEndian(context.endian, d, i * 4) = RawStringMagic
        /\ BlobPanics(d, i * 4, IsD1(version))

\* create_scanner_context: every (package, entry index) of package_entry_index,
\* the keys of hash64_table, the keys of the string map, the byte order
CreateScannerContext(package_entry_index, h64, stringmap) ==
    [valid_file_hashes |->
        UNION {{TagHashNew(p, e) : e \in 0..(package_entry_index[p] - 1)} :
               p \in DOMAIN package_entry_index},
     valid_file_hashes64 |-> DOMAIN h64,
     known_string_hashes |-> stringmap,
     endian |-> EndianOf(version)]

\* the value of scanner_context before create_scanner_context has run
NoContext ==
    [valid_file_hashes |-> {}, valid_file_hashes64 |-> {}, known_string_hashes |-> {},
     endian |-> "Little"]

\* the archive of the model: every package holds NumEntries entries
PackageEntryIndex == [p \in Packages |-> NumEntries]

\* The package files are the base archive, or the base archive with one
\* deviation: an entry that cannot be read, is of a type that is not scanned,
\* is empty, holds a 64-bit reference or holds a raw-string marker with an
\* over-large length; a package that cannot be opened; string containers that
\* fail to decode; string containers that decode to one string hash.
BaseArchive == [kind |-> "base", pkg |-> 0, entry |-> 0]
Archives ==
    {BaseArchive}
    \cup {[kind |-> k, pkg |-> p, entry |-> e] :
            k \in {"unreadable", "unscanned", "empty", "link64", "blob"},
            p \in Packages, e \in Entries}
    \cup {[kind |-> "unopenable", pkg |-> p, entry |-> 0] : p \in Packages}
    \cup {[kind |-> k, pkg |-> 0, entry |-> 0] : k \in {"strings_fail", "strings"}}

\* the deviation of the archive is k, at entry e of package p
Deviates(k, p, e) == archive = [kind |-> k, pkg |-> p, entry |-> e]

\* a string hash the text extractor may know: 0x00000020
StringHash == <<0, 0, 0, 32>>

\* the empty map, as a function
EmptyMap == <<>>

\* IntMap::insert
Insert(m, k, v) == [x \in DOMAIN m \cup {k} |-> IF x = k THEN v ELSE m[x]]

\* the cache file: absent, unreadable (not zstd, or not a TagCache), or a
\* stored TagCache
\* CacheFile that leaves the records out
CacheFileHeaderOnly(c) == [kind |-> "valid", content |-> [c EXCEPT !.hashes = EmptyMap]]

\* BadFile that decodes, to a default TagCache
BadFileDecodes == [kind |-> "valid", content |-> DefaultTagCache]

NoFile == [kind |-> "absent", content |-> DefaultTagCache]
BadFile == [kind |-> "invalid", content |-> DefaultTagCache]
CacheFile(c) == [kind |-> "valid", content |-> c]

\* ScanStatus: the phase, with the counters of ScanStatus::Scanning
St(phase) == [phase |-> phase, current_package |-> 0, total_packages |-> 0]
Scanning(current, total) ==
    [phase |-> "Scanning", current_package |-> current, total_packages |-> total]

\* the modification time of package_dir in seconds, 0 when it cannot be read
PkgTimestamp == IF mtime < 0 THEN 0 ELSE mtime

----------------------------------------------------------------------------
(* SpecScan: scan_file on every buffer of at most MaxLen bytes *)

\* the bytes of the buffers: with them a buffer can hold the TagHash of
\* package 1, entry 0 (0x80802000) in either byte order, package-file values
\* that are no entry of the archive, and values that are no package file
ScanBytes == {0, 32, 128}

Buffers == UNION {[1..n -> ScanBytes] : n \in 0..MaxLen}

\* the variables SpecScan and SpecTransform leave alone
IdleLoad ==
    /\ disk = NoFile
    /\ wpc = [p \in Packages |-> "idle"]
    /\ all_tags = [p \in Packages |-> <<>>]
    /\ results = [p \in Packages |-> EmptyMap]
    /\ current_package = [p \in Packages |-> 0]
    /\ returned = <<>>
    /\ writes = 0
    /\ log = {}
    /\ unread = {}
    /\ archive = BaseArchive

IdleTransform ==
    /\ cache = EmptyMap
    /\ direct_reference_cache = EmptyMap
    /\ new_cache = DefaultTagCache
    /\ todo = {}

InitScan ==
    /\ args = <<>>
    /\ version \in PackageVersions
    /\ hash64_table \in {[h \in {<<0, 0, 0, 32, 0, 0, 0, 32>>} |-> TagHashNew(1, 0)]}
    /\ mtime = 0
    /\ pc = "scan"
    /\ status = St("None")
    /\ \E pei \in {PackageEntryIndex, [p \in {NumPackages} |-> NumEntries]},
          sm \in {{}, {StringHash, FNV1_BASE}} :
          scanner_context = CreateScannerContext(pei, hash64_table, sm)
    /\ data \in Buffers
    /\ r = DefaultScanResult
    /\ IdleLoad
    /\ IdleTransform

\* one call of scan_file
ScanFileCall ==
    /\ pc = "scan"
    /\ ~ScanFilePanics(scanner_context, data)
    /\ r' = ScanFile(scanner_context, data)
    /\ pc' = "scanned"
    /\ UNCHANGED <<version, hash64_table, mtime, disk, status, scanner_context, wpc,
                   all_tags, results, current_package, cache, direct_reference_cache,
                   new_cache, todo, returned, writes, log, unread, archive, args, data>>

NextScan == ScanFileCall

SpecScan == InitScan /\ [][NextScan]_vars

\* the 32-bit value scan_file reads at offset o
ValueAt(o) == U32FromEndian(scanner_context.endian, data, o)

\* offset o lies on a 4-byte boundary and its 4 bytes are in the buffer
Aligned4(o) == o % 4 = 0 /\ o + 4 <= Len(data)

\* the value at offset o is a package-file TagHash of the context
ValidAt(o) == IsPkgFile(ValueAt(o)) /\ ValueAt(o) \in scanner_context.valid_file_hashes

\* C8: after scan_file, every 4-byte-aligned offset whose value is a valid
\* package-file TagHash of the context has exactly one entry of file_hashes,
\* carrying that value; no other offset has any; and the recorded offsets are
\* strictly increasing multiples of 4.
C8_ScanRecordsEachValidRef ==
    pc = "scanned" =>
        /\ \A o \in 0..Len(data) :
              Cardinality({k \in DOMAIN r.file_hashes : r.file_hashes[k].offset = o})
                  = IF Aligned4(o) /\ ValidAt(o) THEN 1 ELSE 0
        /\ \A k \in DOMAIN r.file_hashes :
              /\ r.file_hashes[k].offset \in 0..Len(data)
              /\ r.file_hashes[k].offset % 4 = 0
              /\ r.file_hashes[k].hash = ValueAt(r.file_hashes[k].offset)
              /\ k > 1 => r.file_hashes[k - 1].offset < r.file_hashes[k].offset

\* C8 witness: a scanned buffer with a recorded reference and, beside it, an
\* aligned value that is a package file but no entry of the archive
C8_Witness ==
    /\ pc = "scanned"
    /\ Len(r.file_hashes) = 1
    /\ \E o \in 0..Len(data) : Aligned4(o) /\ IsPkgFile(ValueAt(o)) /\ ~ValidAt(o)

----------------------------------------------------------------------------
(* transform_tag_cache *)

\* PushRef that keeps one occurrence of a source under a target
PushRefOnce(drc, target, source) ==
    IF target \in DOMAIN drc
    THEN IF \E k \in DOMAIN drc[target] : drc[target][k] = source
         THEN drc
         ELSE [drc EXCEPT ![target] = Append(@, source)]
    ELSE Insert(drc, target, <<source>>)

\* the Entry match of the gather loops: push source under target, or insert
\* vec![source] when target is a new key
PushRef(drc, target, source) ==
    IF target \in DOMAIN drc
    THEN [drc EXCEPT ![target] = Append(@, source)]
    ELSE Insert(drc, target, <<source>>)

\* for t32 in &v2.file_hashes
RECURSIVE Gather32(_, _, _)
Gather32(drc, k2, file_hashes) ==
    IF file_hashes = <<>> THEN drc
    ELSE Gather32(PushRef(drc, Head(file_hashes).hash, k2), k2, Tail(file_hashes))

\* for t64 in &v2.file_hashes64: only the ones hash64_table resolves
RECURSIVE Gather64(_, _, _)
Gather64(drc, k2, file_hashes64) ==
    IF file_hashes64 = <<>> THEN drc
    ELSE Gather64(IF Head(file_hashes64).hash \in DOMAIN hash64_table
                  THEN PushRef(drc, hash64_table[Head(file_hashes64).hash], k2)
                  ELSE drc,
                  k2, Tail(file_hashes64))

\* the body of the gather loop for one (k2, v2) of the cache
GatherOne(drc, k2, v2) == Gather64(Gather32(drc, k2, v2.file_hashes), k2, v2.file_hashes64)

\* ApplyOne that keeps the scanned record as it is
ApplyOneNoRefs(drc, k, v) == v

\* the body of the apply loop for one (k, v) of the cache
ApplyOne(drc, k, v) == IF k \in DOMAIN drc THEN [v EXCEPT !.references = drc[k]] ELSE v

\* NeedsPlaceholder with the key test inverted
NeedsPlaceholderInverted(hashes, k, v) == v # <<>> /\ k \in DOMAIN hashes

\* the test of the last loop: a target with references that is not yet a key
NeedsPlaceholder(hashes, k, v) == v # <<>> /\ k \notin DOMAIN hashes

\* the record the last loop inserts
Placeholder(v) == [DefaultScanResult EXCEPT !.references = v]

\* lines 495-498: a default TagCache, status TransformGathering
TransformBegin ==
    /\ pc = "transform"
    /\ new_cache' = DefaultTagCache
    /\ status' = St("TransformGathering")
    /\ direct_reference_cache' = EmptyMap
    /\ todo' = DOMAIN cache
    /\ pc' = "gather"
    /\ UNCHANGED <<version, hash64_table, mtime, disk, scanner_context, wpc, all_tags,
                   results, current_package, cache, returned, writes, log, unread,
                   archive, args, data, r>>

\* a and b as 32-bit numbers: a < b
HashLess(a, b) ==
    \E i \in 1..4 : a[i] < b[i] /\ \A j \in 1..(i - 1) : a[j] = b[j]

\* the keys the gather loop may visit next: an IntMap iterates in an order the
\* program does not control
NextKeys(c, S) ==
    IF Cardinality(DOMAIN c) <= MaxFreeOrder THEN S
    ELSE {k \in S : \A x \in S \ {k} : HashLess(k, x)}

\* one iteration of the gather loop
GatherStep ==
    /\ pc = "gather"
    /\ \E k2 \in NextKeys(cache, todo) :
          /\ direct_reference_cache' = GatherOne(direct_reference_cache, k2, cache[k2])
          /\ todo' = todo \ {k2}
    /\ UNCHANGED <<version, hash64_table, mtime, disk, pc, status, scanner_context, wpc,
                   all_tags, results, current_package, cache, new_cache, returned,
                   writes, log, unread, archive, args, data, r>>

\* the apply loop over the keys in S: every scanned record, with its
\* references attached, goes into the new map (the keys are distinct, so the
\* iteration order does not show in the result)
RECURSIVE ApplyLoop(_, _, _, _)
ApplyLoop(hashes, drc, c, S) ==
    IF S = {} THEN hashes
    ELSE LET k == CHOOSE x \in S : TRUE
         IN  ApplyLoop(Insert(hashes, k, ApplyOne(drc, k, c[k])), drc, c, S \ {k})

\* the loop over the reverse mapping's keys in S: a placeholder for every
\* target that has references and is no key yet
RECURSIVE RemainingLoop(_, _, _)
RemainingLoop(hashes, drc, S) ==
    IF S = {} THEN hashes
    ELSE LET k == CHOOSE x \in S : TRUE
         IN  RemainingLoop(IF NeedsPlaceholder(hashes, k, drc[k])
                           THEN Insert(hashes, k, Placeholder(drc[k]))
                           ELSE hashes,
                           drc, S \ {k})

\* lines 526-536: status TransformApplying, then the apply loop
ApplyReferences ==
    /\ pc = "gather"
    /\ todo = {}
    /\ status' = St("TransformApplying")
    /\ new_cache' = [new_cache EXCEPT !.hashes =
                        ApplyLoop(@, direct_reference_cache, cache, DOMAIN cache)]
    /\ pc' = "remaining"
    /\ UNCHANGED <<version, hash64_table, mtime, disk, scanner_context, wpc, all_tags,
                   results, current_package, cache, direct_reference_cache, todo,
                   returned, writes, log, unread, archive, args, data, r>>

\* lines 538-549: the loop over the reverse mapping, which it consumes
AddRemaining ==
    /\ pc = "remaining"
    /\ new_cache' = [new_cache EXCEPT !.hashes =
                        RemainingLoop(@, direct_reference_cache,
                                      DOMAIN direct_reference_cache)]
    /\ direct_reference_cache' = EmptyMap
    /\ pc' = "timestamp"
    /\ UNCHANGED <<version, hash64_table, mtime, disk, status, scanner_context, wpc,
                   all_tags, results, current_package, cache, todo, returned, writes,
                   log, unread, archive, args, data, r>>

\* TransformEnd that leaves the default timestamp in the TagCache
TransformEndDefaultTimestamp ==
    /\ pc = "timestamp"
    /\ new_cache' = new_cache
    /\ pc' = "transformed"
    /\ UNCHANGED <<version, hash64_table, mtime, disk, status, scanner_context, wpc,
                   all_tags, results, current_package, cache, direct_reference_cache,
                   todo, returned, writes, log, unread, archive, args, data, r>>

\* lines 551-566: the timestamp is read and the TagCache returned
TransformEnd ==
    /\ pc = "timestamp"
    /\ new_cache' = [new_cache EXCEPT !.timestamp = PkgTimestamp]
    /\ pc' = "transformed"
    /\ UNCHANGED <<version, hash64_table, mtime, disk, status, scanner_context, wpc,
                   all_tags, results, current_package, cache, direct_reference_cache,
                   todo, returned, writes, log, unread, archive, args, data, r>>

----------------------------------------------------------------------------
(* SpecTransform: transform_tag_cache on every scan map of at most MaxRefs
   direct references over two scanned tags *)

\* the scanned tags of SpecTransform and a tag that is only ever referenced
TagA == TagHashNew(1, 0)
TagB == TagHashNew(1, 1)
TagC == TagHashNew(NumPackages, 0)

\* sequences of at most n elements of S
SeqsUpTo(S, n) == UNION {[1..k -> S] : k \in 0..n}

\* a sequence of hashes as ScannedHash entries, stride bytes apart
RefSeq(hs, stride) == [k \in 1..Len(hs) |-> [offset |-> stride * (k - 1), hash |-> hs[k]]]

\* the ScanResult records SpecTransform draws from: the record of a failed
\* read, and successful records with at most MaxRefs references
ScanRecords ==
    {[DefaultScanResult EXCEPT !.successful = FALSE]} \cup
    {[DefaultScanResult EXCEPT
         !.file_hashes = RefSeq(h32, 4),
         !.file_hashes64 = RefSeq(h64, 8),
         !.string_hashes = IF Len(h32) = 1 THEN <<[offset |-> 0, hash |-> StringHash]>>
                           ELSE <<>>,
         !.raw_strings = IF Len(h64) = 1 THEN <<<<102, 111, 111>>>> ELSE <<>>] :
     h32 \in SeqsUpTo({TagA, TagB, TagC}, MaxRefs), h64 \in SeqsUpTo(Hash64s, 1)}

\* the number of direct references of a scan map
RefCount(c) ==
    LET n[S \in SUBSET DOMAIN c] ==
            IF S = {} THEN 0
            ELSE LET k == CHOOSE x \in S : TRUE
                 IN  Len(c[k].file_hashes) + Len(c[k].file_hashes64) + n[S \ {k}]
    IN  n[DOMAIN c]

InitTransform ==
    /\ args = <<>>
    /\ version = "Destiny2Lightfall"
    /\ hash64_table \in {[h \in {<<0, 0, 0, 32, 0, 0, 0, 32>>} |-> t] : t \in {TagA, TagC}}
    /\ mtime \in -1..MaxTime
    /\ pc = "transform"
    /\ status = Scanning(1, 1)
    /\ scanner_context = CreateScannerContext(PackageEntryIndex, hash64_table, {})
    /\ \E S \in SUBSET {TagA, TagB} : cache \in [S -> ScanRecords]
    /\ RefCount(cache) <= MaxRefs
    /\ direct_reference_cache = EmptyMap
    /\ new_cache = DefaultTagCache
    /\ todo = {}
    /\ data = <<>>
    /\ r = DefaultScanResult
    /\ IdleLoad

NextTransform ==
    \/ TransformBegin
    \/ GatherStep
    \/ ApplyReferences
    \/ AddRemaining
    \/ TransformEnd

SpecTransform == InitTransform /\ [][NextTransform]_vars

----------------------------------------------------------------------------
(* load_tag_cache *)

\* a value in the byte order of the archive
Enc(endian, v) == IF endian = "Big" THEN v ELSE [k \in 1..Len(v) |-> v[Len(v) + 1 - k]]

\* the entry after (p, e) in the archive, the last one followed by the first
NextEntry(p, e) ==
    IF e + 1 < NumEntries THEN <<p, e + 1>> ELSE <<(p % NumPackages) + 1, 0>>

\* version.open(path): whether the package opens
Opens(p) == ~Deviates("unopenable", p, 0)

\* the type of entry e of package p: 0 for the legacy generation, 8 or 16 for
\* the current one, 32 for an entry of a type that is not scanned
EntryType(p, e) ==
    IF Deviates("unscanned", p, e) THEN 32
    ELSE IF IsD1(version) THEN 0
    ELSE IF e % 2 = 0 THEN 16 ELSE 8

\* pkg.get_all_by_type(ty, None): the indices of the entries of type ty from
\* index e on, in the package's order
RECURSIVE GetAllByType(_, _, _)
GetAllByType(p, ty, e) ==
    IF e >= NumEntries THEN <<>>
    ELSE (IF EntryType(p, e) = ty THEN <<e>> ELSE <<>>) \o GetAllByType(p, ty, e + 1)

\* pkg.read_entry(t): whether the read succeeds
Reads(p, e) == ~Deviates("unreadable", p, e)

\* pkg.read_entry(t): the bytes of the entry. An entry of the base archive
\* holds the TagHash of the entry after it.
ReadEntry(endian, p, e) ==
    IF Deviates("empty", p, e) THEN <<>>
    ELSE IF Deviates("link64", p, e) THEN Enc(endian, <<0, 0, 0, 32, 0, 0, 0, 32>>)
    ELSE IF Deviates("blob", p, e) THEN Enc(endian, RawStringMagic) \o [k \in 1..8 |-> 128]
    ELSE Enc(endian, TagHashNew(NextEntry(p, e)[1], NextEntry(p, e)[2]))

\* pkg.entry(t).reference: the second entry of a package refers to the first,
\* the others have none (0xffffffff)
EntryReference(p, e) == IF e = 1 THEN TagHashNew(p, 0) ELSE <<255, 255, 255, 255>>

\* create_stringmap(): FALSE when it returns Err, which only the generations
\* with string loading can
StringMapOk == ~(Deviates("strings_fail", 0, 0) /\ version # "DestinyRiseOfIron")

\* the keys of the string map create_stringmap() returns
StringMapKeys ==
    IF Deviates("strings", 0, 0) /\ version # "DestinyRiseOfIron" THEN {StringHash} ELSE {}

\* what the cache file may hold when load_tag_cache starts: a cache of the
\* current version with any timestamp, an older one, a newer one (the
\* timestamp of these two is never read)
StoredCaches ==
    {[timestamp |-> t, version |-> v,
      hashes |-> [k \in {TagHashNew(1, 0)} |-> DefaultScanResult]] :
     t \in 0..MaxTime, v \in {CurrentVersion - 1, CurrentVersion, CurrentVersion + 1}}
    \ {[timestamp |-> t, version |-> v,
        hashes |-> [k \in {TagHashNew(1, 0)} |-> DefaultScanResult]] :
       t \in 1..MaxTime, v \in {CurrentVersion - 1, CurrentVersion + 1}}

\* insertion of x into an ascending sequence, after the elements equal to it
RECURSIVE InsertSorted(_, _)
InsertSorted(q, x) ==
    IF q = <<>> THEN <<x>>
    ELSE IF x < Head(q) THEN <<x>> \o q
    ELSE <<Head(q)>> \o InsertSorted(Tail(q), x)

\* all_tags.sort_by_key(|v| v.0): a stable sort by entry index
RECURSIVE SortByKey(_)
SortByKey(q) == IF q = <<>> THEN <<>> ELSE InsertSorted(SortByKey(SubSeq(q, 1, Len(q) - 1)), q[Len(q)])

\* lines 410-421: the entries of the scanned types, sorted by index
AllTags(p) ==
    SortByKey(IF IsD1(version) THEN GetAllByType(p, 0, 0)
              ELSE GetAllByType(p, 8, 0) \o GetAllByType(p, 16, 0))

\* .flatten().collect(): the per-package maps in package order into one map,
\* a later pair replacing an earlier one of the same key
RECURSIVE Collect(_, _)
Collect(res, n) ==
    IF n = 0 THEN EmptyMap
    ELSE LET m == Collect(res, n - 1)
         IN  [x \in DOMAIN m \cup DOMAIN res[n] |->
                 IF x \in DOMAIN res[n] THEN res[n][x] ELSE m[x]]

\* lines 443-456: for the legacy generation the entry's own reference, when it
\* is a valid hash of the context, goes to the front of file_hashes
WithParentReference(context, scan_result, ref_tag) ==
    IF ref_tag \in context.valid_file_hashes
    THEN [scan_result EXCEPT !.file_hashes = <<[offset |-> U64Max, hash |-> ref_tag]>> \o @]
    ELSE scan_result

\* FailedScanResult without `successful: false`
FailedScanResultDefault == DefaultScanResult

\* the record of an entry whose read failed (lines 431-437)
FailedScanResult == [DefaultScanResult EXCEPT !.successful = FALSE]

\* lines 442-456: the record of an entry whose bytes were read
ScanEntry(context, p, t) ==
    LET scan_result == ScanFile(context, ReadEntry(context.endian, p, t))
    IN  IF IsD1(version)
        THEN WithParentReference(context, scan_result, EntryReference(p, t))
        ELSE scan_result

\* Every cache file and modification time with the base archive, and every
\* archive with no cache file and the latest modification time.
InitLoad ==
    /\ args = <<>>
    /\ version \in PackageVersions
    /\ hash64_table = [h \in {<<0, 0, 0, 32, 0, 0, 0, 32>>} |-> TagHashNew(NumPackages, 0)]
    /\ mtime \in -1..MaxTime
    /\ disk \in {NoFile, BadFile} \cup {CacheFile(c) : c \in StoredCaches}
    /\ archive \in Archives
    /\ archive = BaseArchive \/ (disk = NoFile /\ mtime = MaxTime)
    /\ pc = "start"
    /\ status = St("None")
    /\ scanner_context = NoContext
    /\ data = <<>>
    /\ r = DefaultScanResult
    /\ wpc = [p \in Packages |-> "idle"]
    /\ all_tags = [p \in Packages |-> <<>>]
    /\ results = [p \in Packages |-> EmptyMap]
    /\ current_package = [p \in Packages |-> 0]
    /\ returned = <<>>
    /\ writes = 0
    /\ log = {}
    /\ unread = {}
    /\ IdleTransform

\* lines 299-301: File::open; with a file, status LoadingCache
OpenCacheFile ==
    /\ pc = "start"
    /\ IF disk.kind = "absent"
       THEN pc' = "rebuild" /\ status' = status /\ log' = log
       ELSE pc' = "loading" /\ status' = St("LoadingCache") /\ log' = log \cup {"loading"}
    /\ UNCHANGED <<version, hash64_table, mtime, disk, scanner_context, wpc, all_tags,
                   results, current_package, cache, direct_reference_cache, new_cache,
                   todo, returned, writes, unread, archive, args, data, r>>

\* VersionOrdering that takes a newer cache for an older one
VersionOrderingNoFuture(c) == IF c.version = CurrentVersion THEN "Equal" ELSE "Less"

\* VersionOrdering that takes an older cache for a current one
VersionOrderingAtMost(c) == IF c.version <= CurrentVersion THEN "Equal" ELSE "Greater"

\* the version test of line 306 on a stored cache c
VersionOrdering(c) ==
    IF c.version = CurrentVersion THEN "Equal"
    ELSE IF c.version < CurrentVersion THEN "Less" ELSE "Greater"

\* IsStale with the comparison turned around
IsStaleReversed(c) == c.timestamp > PkgTimestamp

\* IsStale that also takes an equal timestamp for stale
IsStaleOrEqual(c) == c.timestamp <= PkgTimestamp

\* the staleness test of line 322
IsStale(c) == c.timestamp < PkgTimestamp

\* lines 303-371: decode the file and decide: reuse, rebuild or exit
LoadCache ==
    /\ pc = "loading"
    /\ \/ /\ disk.kind = "invalid"
          /\ log' = log \cup {"cache_invalid"}
          /\ pc' = "rebuild"
          /\ UNCHANGED <<status, returned>>
       \/ /\ disk.kind = "valid"
          /\ VersionOrdering(disk.content) = "Equal"
          /\ IsStale(disk.content)
          /\ log' = log \cup {"out_of_date_timestamp"}
          /\ pc' = "rebuild"
          /\ UNCHANGED <<status, returned>>
       \/ /\ disk.kind = "valid"
          /\ VersionOrdering(disk.content) = "Equal"
          /\ ~IsStale(disk.content)
          /\ status' = St("None")
          /\ returned' = <<disk.content>>
          /\ pc' = "done"
          /\ UNCHANGED log
       \/ /\ disk.kind = "valid"
          /\ VersionOrdering(disk.content) = "Less"
          /\ log' = log \cup {"out_of_date_version"}
          /\ pc' = "rebuild"
          /\ UNCHANGED <<status, returned>>
       \/ /\ disk.kind = "valid"
          /\ VersionOrdering(disk.content) = "Greater"
          /\ log' = log \cup {"future_cache"}
          /\ pc' = "exited"
          /\ UNCHANGED <<status, returned>>
    /\ UNCHANGED <<version, hash64_table, mtime, disk, scanner_context, wpc, all_tags,
                   results, current_package, cache, direct_reference_cache, new_cache,
                   todo, writes, unread, archive, args, data, r>>

\* line 374: status CreatingScanner
CreatingScanner ==
    /\ pc = "rebuild"
    /\ status' = St("CreatingScanner")
    /\ pc' = "context"
    /\ UNCHANGED <<version, hash64_table, mtime, disk, scanner_context, wpc, all_tags,
                   results, current_package, cache, direct_reference_cache, new_cache,
                   todo, returned, writes, log, unread, archive, args, data, r>>

\* lines 375-385: create_scanner_context; `expect` panics when it returns Err;
\* otherwise the packages are handed to the workers
CreateContext ==
    /\ pc = "context"
    /\ \/ /\ ~StringMapOk
          /\ log' = log \cup {"panic_context"}
          /\ pc' = "panicked"
          /\ UNCHANGED <<scanner_context, wpc>>
       \/ /\ StringMapOk
          /\ scanner_context' =
                CreateScannerContext(PackageEntryIndex, hash64_table, StringMapKeys)
          /\ wpc' = [p \in Packages |-> "start"]
          /\ pc' = "scanning"
          /\ UNCHANGED log
    /\ UNCHANGED <<version, hash64_table, mtime, disk, status, all_tags, results,
                   current_package, cache, direct_reference_cache, new_cache, todo,
                   returned, writes, unread, archive, args, data, r>>

\* WorkerProgress that publishes the counter it read, without the increment
WorkerProgressNoIncrement(p) ==
    /\ pc = "scanning"
    /\ wpc[p] = "start"
    /\ LET current == IF status.phase = "Scanning" THEN status.current_package ELSE 0
       IN  /\ current_package' = [current_package EXCEPT ![p] = current]
           /\ status' = Scanning(current, NumPackages)
    /\ wpc' = [wpc EXCEPT ![p] = "open"]
    /\ UNCHANGED <<version, hash64_table, mtime, disk, pc, scanner_context, all_tags,
                   results, cache, direct_reference_cache, new_cache, todo, returned,
                   writes, log, unread, archive, args, data, r>>

\* WorkerProgress whose read of the counter came before every other worker's
\* write, as it can without the lock
WorkerProgressStale(p) ==
    /\ pc = "scanning"
    /\ wpc[p] = "start"
    /\ current_package' = [current_package EXCEPT ![p] = 0]
    /\ status' = Scanning(1, NumPackages)
    /\ wpc' = [wpc EXCEPT ![p] = "open"]
    /\ UNCHANGED <<version, hash64_table, mtime, disk, pc, scanner_context, all_tags,
                   results, cache, direct_reference_cache, new_cache, todo, returned,
                   writes, log, unread, archive, args, data, r>>

\* lines 389-406: under the write lock, read the counter of the status cell
\* (0 when it is not Scanning) and publish Scanning with the counter plus one
WorkerProgress(p) ==
    /\ pc = "scanning"
    /\ wpc[p] = "start"
    /\ LET current == IF status.phase = "Scanning" THEN status.current_package ELSE 0
       IN  /\ current_package' = [current_package EXCEPT ![p] = current]
           /\ status' = Scanning(current + 1, NumPackages)
    /\ wpc' = [wpc EXCEPT ![p] = "open"]
    /\ UNCHANGED <<version, hash64_table, mtime, disk, pc, scanner_context, all_tags,
                   results, cache, direct_reference_cache, new_cache, todo, returned,
                   writes, log, unread, archive, args, data, r>>

\* lines 408-423: open the package (unwrap panics when it cannot be opened),
\* list the entries of the scanned types, sort them by index
WorkerOpen(p) ==
    /\ pc = "scanning"
    /\ wpc[p] = "open"
    /\ \/ /\ ~Opens(p)
          /\ log' = log \cup {"panic_open"}
          /\ pc' = "panicked"
          /\ UNCHANGED <<wpc, all_tags, results>>
       \/ /\ Opens(p)
          /\ all_tags' = [all_tags EXCEPT ![p] = AllTags(p)]
          /\ results' = [results EXCEPT ![p] = EmptyMap]
          /\ wpc' = [wpc EXCEPT ![p] = "scan"]
          /\ UNCHANGED <<pc, log>>
    /\ UNCHANGED <<version, hash64_table, mtime, disk, status, scanner_context,
                   current_package, cache, direct_reference_cache, new_cache, todo,
                   returned, writes, unread, archive, args, data, r>>

\* lines 424-458: one iteration of the loop over all_tags: read the entry; a
\* failed read stores the failed record; otherwise scan_file (which may panic),
\* the parent reference for the legacy generation, and the insert
WorkerEntry(p) ==
    /\ pc = "scanning"
    /\ wpc[p] = "scan"
    /\ all_tags[p] # <<>>
    /\ LET t == Head(all_tags[p])
           hash == TagHashNew(p, t)
       IN  \/ /\ ~Reads(p, t)
              /\ results' = [results EXCEPT ![p] = Insert(@, hash, FailedScanResult)]
              /\ log' = log \cup {"read_entry_failed"}
              /\ unread' = unread \cup {hash}
              /\ all_tags' = [all_tags EXCEPT ![p] = Tail(@)]
              /\ pc' = pc
           \/ /\ Reads(p, t)
              /\ ScanFilePanics(scanner_context, ReadEntry(scanner_context.endian, p, t))
              /\ log' = log \cup {"panic_scan"}
              /\ pc' = "panicked"
              /\ UNCHANGED <<results, unread, all_tags>>
           \/ /\ Reads(p, t)
              /\ ~ScanFilePanics(scanner_context, ReadEntry(scanner_context.endian, p, t))
              /\ results' = [results EXCEPT ![p] =
                                Insert(@, hash, ScanEntry(scanner_context, p, t))]
              /\ all_tags' = [all_tags EXCEPT ![p] = Tail(@)]
              /\ UNCHANGED <<pc, log, unread>>
    /\ UNCHANGED <<version, hash64_table, mtime, disk, status, scanner_context, wpc,
                   current_package, cache, direct_reference_cache, new_cache, todo,
                   returned, writes, archive, args, data, r>>

\* line 460: the closure returns its results
WorkerReturn(p) ==
    /\ pc = "scanning"
    /\ wpc[p] = "scan"
    /\ all_tags[p] = <<>>
    /\ wpc' = [wpc EXCEPT ![p] = "done"]
    /\ UNCHANGED <<version, hash64_table, mtime, disk, pc, status, scanner_context,
                   all_tags, results, current_package, cache, direct_reference_cache,
                   new_cache, todo, returned, writes, log, unread, archive, args, data, r>>

\* lines 462-467: every closure has returned; the results are merged and
\* handed to transform_tag_cache
CollectResults ==
    /\ pc = "scanning"
    /\ \A p \in Packages : wpc[p] = "done"
    /\ cache' = Collect(results, NumPackages)
    /\ pc' = "transform"
    /\ UNCHANGED <<version, hash64_table, mtime, disk, status, scanner_context, wpc,
                   all_tags, results, current_package, direct_reference_cache,
                   new_cache, todo, returned, writes, log, unread, archive, args, data, r>>

\* lines 469-471: status WritingCache, the cache is serialized
WritingCache ==
    /\ pc = "transformed"
    /\ status' = St("WritingCache")
    /\ pc' = "create_file"
    /\ UNCHANGED <<version, hash64_table, mtime, disk, scanner_context, wpc, all_tags,
                   results, current_package, cache, direct_reference_cache, new_cache,
                   todo, returned, writes, log, unread, archive, args, data, r>>

\* line 473: File::create truncates the file; unwrap panics when it fails
CreateCacheFile ==
    /\ pc = "create_file"
    /\ \/ /\ log' = log \cup {"panic_write"}
          /\ pc' = "panicked"
          /\ disk' = disk
       \/ /\ disk' = BadFile
          /\ pc' = "write_all"
          /\ UNCHANGED log
    /\ UNCHANGED <<version, hash64_table, mtime, status, scanner_context, wpc, all_tags,
                   results, current_package, cache, direct_reference_cache, new_cache,
                   todo, returned, writes, unread, archive, args, data, r>>

\* lines 474-475: write_all and finish; unwrap panics on an I/O error and
\* leaves a file that does not decode
WriteCacheFile ==
    /\ pc = "write_all"
    /\ \/ /\ log' = log \cup {"panic_write"}
          /\ pc' = "panicked"
          /\ UNCHANGED <<disk, writes>>
       \/ /\ disk' = CacheFile(new_cache)
          /\ writes' = writes + 1
          /\ pc' = "written"
          /\ UNCHANGED log
    /\ UNCHANGED <<version, hash64_table, mtime, status, scanner_context, wpc, all_tags,
                   results, current_package, cache, direct_reference_cache, new_cache,
                   todo, returned, unread, archive, args, data, r>>

\* ReturnCache without the reset of the status
ReturnCacheKeepsStatus ==
    /\ pc = "written"
    /\ returned' = <<new_cache>>
    /\ pc' = "done"
    /\ UNCHANGED <<version, hash64_table, mtime, disk, status, scanner_context, wpc,
                   all_tags, results, current_package, cache, direct_reference_cache,
                   new_cache, todo, writes, log, unread, archive, args, data, r>>

\* lines 476-488: status None, the cache is returned
ReturnCache ==
    /\ pc = "written"
    /\ status' = St("None")
    /\ returned' = <<new_cache>>
    /\ pc' = "done"
    /\ UNCHANGED <<version, hash64_table, mtime, disk, scanner_context, wpc, all_tags,
                   results, current_package, cache, direct_reference_cache, new_cache,
                   todo, writes, log, unread, archive, args, data, r>>

\* The package directory is modified while load_tag_cache runs.  The time is
\* read at line 309 and at line 551 only, so one moment before the first read,
\* one between the two and one after the second stand for all.
TouchPackageDir ==
    /\ pc \in {"start", "context", "create_file"}
    /\ mtime >= 0
    /\ mtime < MaxTime
    /\ mtime' = mtime + 1
    /\ UNCHANGED <<version, hash64_table, disk, pc, status, scanner_context, wpc,
                   all_tags, results, current_package, cache, direct_reference_cache,
                   new_cache, todo, returned, writes, log, unread, archive, args, data, r>>

Next ==
    \/ OpenCacheFile
    \/ LoadCache
    \/ CreatingScanner
    \/ CreateContext
    \/ \E p \in Packages : WorkerProgress(p)
    \/ \E p \in Packages : WorkerOpen(p)
    \/ \E p \in Packages : WorkerEntry(p)
    \/ \E p \in Packages : WorkerReturn(p)
    \/ CollectResults
    \/ TransformBegin
    \/ GatherStep
    \/ ApplyReferences
    \/ AddRemaining
    \/ TransformEnd
    \/ WritingCache
    \/ CreateCacheFile
    \/ WriteCacheFile
    \/ ReturnCache
    \/ TouchPackageDir

Spec == InitLoad /\ [][Next]_vars

----------------------------------------------------------------------------
(* Properties of transform_tag_cache *)

\* the elements of a sequence
Range(q) == {q[k] : k \in DOMAIN q}

\* the 32-bit targets of a scanned record: its direct 32-bit references and
\* its 64-bit references that hash64_table resolves
Targets32(v) == {v.file_hashes[k].hash : k \in DOMAIN v.file_hashes}
Targets64(v) ==
    {hash64_table[v.file_hashes64[k].hash] :
        k \in {j \in DOMAIN v.file_hashes64 : v.file_hashes64[j].hash \in DOMAIN hash64_table}}

\* C1: after transform_tag_cache, for every scanned tag S and every target T
\* among S's direct 32-bit references, the final cache holds a record for T
\* whose references contain S.
C1_BackReferenceOfEvery32BitRef ==
    pc = "transformed" =>
        \A S \in DOMAIN cache : \A T \in Targets32(cache[S]) :
            /\ T \in DOMAIN new_cache.hashes
            /\ S \in Range(new_cache.hashes[T].references)

\* C1 witness: a finished transform where a scanned tag refers to another
\* scanned tag and to a tag that was never scanned
C1_Witness ==
    /\ pc = "transformed"
    /\ \E S \in DOMAIN cache :
          /\ Targets32(cache[S]) \cap (DOMAIN cache \ {S}) # {}
          /\ Targets32(cache[S]) \ DOMAIN cache # {}

\* C2: after transform_tag_cache, every 32-bit reference target and every
\* target a 64-bit reference resolves to is a key of the final cache, scanned
\* or not; a 64-bit reference that does not resolve adds no key (the keys are
\* the scanned tags and those targets, nothing else) and the transform ends.
C2_EveryTargetIsAKey ==
    pc = "transformed" =>
        LET targets == UNION {Targets32(cache[S]) \cup Targets64(cache[S]) : S \in DOMAIN cache}
        IN  /\ targets \subseteq DOMAIN new_cache.hashes
            /\ DOMAIN new_cache.hashes = DOMAIN cache \cup targets

\* C2 witness: a finished transform with a 64-bit reference that resolves to a
\* tag that was not scanned and has no 32-bit reference to it, and a 64-bit
\* reference that does not resolve
C2_Witness ==
    /\ pc = "transformed"
    /\ \E S \in DOMAIN cache :
          Targets64(cache[S]) \ (DOMAIN cache \cup Targets32(cache[S])) # {}
    /\ \E S \in DOMAIN cache : \E k \in DOMAIN cache[S].file_hashes64 :
          cache[S].file_hashes64[k].hash \notin DOMAIN hash64_table

-----------------------------------------------------------------------------
(* load_tag_cache: the decision on the stored cache, and the rebuild *)

\* the TagHashes of the entries the workers scan
ScannedTags == UNION {{TagHashNew(p, t) : t \in Range(AllTags(p))} : p \in Packages}

\* load_tag_cache has returned after a rebuild: the context was built, every
\* worker ran to its end, the entries they scanned are keys of the returned
\* cache, the transform's result was written once and is what is returned
FullRebuild ==
    /\ scanner_context = CreateScannerContext(PackageEntryIndex, hash64_table, StringMapKeys)
    /\ \A p \in Packages : wpc[p] = "done"
    /\ DOMAIN cache = ScannedTags
    /\ returned = <<new_cache>>
    /\ ScannedTags \subseteq DOMAIN new_cache.hashes
    /\ writes = 1
    /\ disk.kind = "valid"
    /\ disk.content = new_cache

\* the stored cache decodes, has the current version and is older than the
\* package directory
StoredIsStale ==
    /\ disk.kind = "valid"
    /\ disk.content.version = CurrentVersion
    /\ disk.content.timestamp < PkgTimestamp

\* the stored cache decodes, has the current version and is not older than the
\* package directory
StoredIsFresh ==
    /\ disk.kind = "valid"
    /\ disk.content.version = CurrentVersion
    /\ disk.content.timestamp >= PkgTimestamp

\* C3: when the stored cache has the current version and a timestamp older
\* than the package directory's modification time, load_tag_cache does not
\* return the stored cache: the decision leads to the rebuild, and a run that
\* returns after it has built the context, scanned every package, transformed
\* and written the new cache, which is what it returns.
C3_StaleCacheIsRebuilt ==
    /\ [][(pc = "loading" /\ StoredIsStale) =>
             (pc' = "rebuild" /\ returned' = <<>> /\ "out_of_date_timestamp" \in log')]_vars
    /\ []("out_of_date_timestamp" \in log =>
             /\ pc # "exited"
             /\ pc # "done" => returned = <<>>
             /\ pc = "done" => FullRebuild)

\* C3 witness: a run that found a stale cache of the current version has
\* returned
C3_Witness ==
    /\ pc = "done"
    /\ "out_of_date_timestamp" \in log
    /\ returned # <<>>
    /\ writes = 1

\* C4: when the stored cache has a version greater than the current one,
\* load_tag_cache ends the process: no cache is returned, no context is built,
\* no package is scanned and the cache file stays as it was.
C4_FutureCacheTerminates ==
    /\ [][(pc = "loading" /\ disk.kind = "valid" /\ disk.content.version > CurrentVersion) =>
             (pc' = "exited" /\ returned' = <<>> /\ disk' = disk)]_vars
    /\ [](pc = "exited" =>
             /\ disk.kind = "valid"
             /\ disk.content.version > CurrentVersion
             /\ returned = <<>>
             /\ scanner_context = NoContext
             /\ \A p \in Packages : wpc[p] = "idle" /\ results[p] = EmptyMap
             /\ cache = EmptyMap
             /\ writes = 0
             /\ ~ENABLED Next)

\* C4 witness: the process has exited on a cache of a newer version
C4_Witness ==
    /\ pc = "exited"
    /\ disk.kind = "valid"
    /\ disk.content.version = CurrentVersion + 1
    /\ "future_cache" \in log

\* C5: when the stored cache has the current version and a timestamp not older
\* than the package directory's modification time, load_tag_cache returns the
\* stored cache as it is, with no context, no scan, no transform and no write,
\* and the status is None.
C5_FreshCacheIsReturned ==
    /\ [][(pc = "loading" /\ StoredIsFresh) =>
             /\ pc' = "done"
             /\ returned' = <<disk.content>>
             /\ status' = St("None")
             /\ UNCHANGED <<disk, scanner_context, wpc, results, cache, new_cache, writes>>]_vars
    /\ []((pc = "done" /\ writes = 0) =>
             /\ disk.kind = "valid"
             /\ returned = <<disk.content>>
             /\ status = St("None")
             /\ scanner_context = NoContext
             /\ \A p \in Packages : wpc[p] = "idle" /\ results[p] = EmptyMap
             /\ cache = EmptyMap
             /\ new_cache = DefaultTagCache)

\* C5 witness: the stored cache was returned while the package directory's
\* time is the cache's own, and while it cannot be read
C5_Witness ==
    /\ pc = "done"
    /\ writes = 0
    /\ returned = <<disk.content>>
    /\ disk.content.timestamp = PkgTimestamp
    /\ disk.content.hashes # EmptyMap

\* C6: when the stored cache has a version lesser than the current one,
\* load_tag_cache neither exits nor returns the stored cache: the decision
\* leads to the rebuild, and the cache a returning run returns and has written
\* carries the current version.
C6_OlderCacheIsRebuilt ==
    /\ [][(pc = "loading" /\ disk.kind = "valid" /\ disk.content.version < CurrentVersion) =>
             (pc' = "rebuild" /\ returned' = <<>> /\ "out_of_date_version" \in log')]_vars
    /\ []("out_of_date_version" \in log =>
             /\ pc # "exited"
             /\ pc # "done" => returned = <<>>
             /\ pc = "done" =>
                   /\ FullRebuild
                   /\ returned[1].version = CurrentVersion
                   /\ disk.content.version = CurrentVersion)

\* C6 witness: a run that found a cache of an older version has returned
C6_Witness ==
    /\ pc = "done"
    /\ "out_of_date_version" \in log
    /\ returned # <<>>
    /\ returned[1].version = CurrentVersion

\* the steps of load_tag_cache before the cache file is created
BeforeWrite ==
    {"start", "loading", "rebuild", "context", "scanning", "transform", "gather",
     "remaining", "timestamp", "transformed"}

\* C7: a run that scans and returns writes the cache file exactly once, after
\* the transform has ended, and the file then holds the whole transformed
\* cache; nothing is written before or during the scan or the transform.
C7_OneWriteAfterTransform ==
    /\ [][(disk' # disk \/ writes' # writes) =>
             /\ pc \in {"create_file", "write_all"}
             /\ new_cache' = new_cache
             /\ DOMAIN cache \subseteq DOMAIN new_cache.hashes]_vars
    /\ [](pc \in BeforeWrite => writes = 0)
    /\ []((pc \in {"written", "done"} /\ \A p \in Packages : wpc[p] = "done") =>
             /\ writes = 1
             /\ disk.kind = "valid"
             /\ disk.content = new_cache
             /\ DOMAIN cache \subseteq DOMAIN disk.content.hashes
             /\ disk.content.version = CurrentVersion)
    /\ []((pc = "done" /\ \A p \in Packages : wpc[p] = "done") =>
             returned = <<disk.content>>)

\* C7 witness: a run that replaced a stored cache has returned
C7_Witness ==
    /\ pc = "done"
    /\ writes = 1
    /\ "loading" \in log
    /\ disk.content = new_cache

\* the scan fields of a record are empty
EmptyScan(v) ==
    /\ v.file_hashes = <<>>
    /\ v.file_hashes64 = <<>>
    /\ v.string_hashes = <<>>
    /\ v.raw_strings = <<>>

\* C9: an entry whose read fails gets a record with successful = false and
\* empty scan fields, and only that entry does: the worker goes on to the
\* next entry, the other entries get the record of their scan, and in the
\* returned cache a scanned entry has successful = false exactly when its
\* bytes could not be read.
C9_FailedReadDegradesOnlyThatEntry ==
    /\ [][unread' # unread =>
             /\ pc = "scanning" /\ pc' = "scanning"
             /\ \E p \in Packages :
                   /\ all_tags[p] # <<>>
                   /\ all_tags'[p] = Tail(all_tags[p])
                   /\ unread' = unread \cup {TagHashNew(p, Head(all_tags[p]))}
                   /\ \A q \in Packages \ {p} : results'[q] = results[q]
                   /\ \A k \in DOMAIN results[p] \ {TagHashNew(p, Head(all_tags[p]))} :
                         results'[p][k] = results[p][k]]_vars
    /\ []((pc = "done" /\ writes = 1) =>
             \A p \in Packages : \A t \in Range(AllTags(p)) :
                LET hash == TagHashNew(p, t)
                IN  /\ hash \in DOMAIN returned[1].hashes
                    /\ returned[1].hashes[hash].successful = Reads(p, t)
                    /\ (hash \in unread) = ~Reads(p, t)
                    /\ ~Reads(p, t) => EmptyScan(returned[1].hashes[hash])
                    /\ Reads(p, t) =>
                          LET v == ScanEntry(scanner_context, p, t)
                          IN  /\ returned[1].hashes[hash].file_hashes = v.file_hashes
                              /\ returned[1].hashes[hash].file_hashes64 = v.file_hashes64
                              /\ returned[1].hashes[hash].string_hashes = v.string_hashes
                              /\ returned[1].hashes[hash].raw_strings = v.raw_strings)

\* C9 witness: a run with an entry that could not be read has returned, and
\* another entry of the same package has a scan with a reference in it
C9_Witness ==
    /\ pc = "done"
    /\ unread # {}
    /\ \E p \in Packages : \E t, u \in Range(AllTags(p)) :
          /\ ~Reads(p, t)
          /\ ~returned[1].hashes[TagHashNew(p, t)].successful
          /\ returned[1].hashes[TagHashNew(p, u)].successful
          /\ returned[1].hashes[TagHashNew(p, u)].file_hashes # <<>>

\* C10: the exit on a cache of a newer version is the only way load_tag_cache
\* ends without returning a cache: a package that cannot be opened, an entry
\* that cannot be read, a failure while the context is built and a failure
\* while the cache is written are absorbed, and the run returns a cache.
C10_OnlyFutureCacheIsFatal ==
    /\ pc # "panicked"
    /\ log \cap {"panic_context", "panic_open", "panic_write"} = {}

-----------------------------------------------------------------------------
(* load_tag_cache: the status cell *)

\* the workers that have done their progress update, and those that returned
Started == {p \in Packages : wpc[p] \notin {"idle", "start"}}
Finished == {p \in Packages : wpc[p] = "done"}

\* C16, as stated: during the scanning phase the counter of
\* ScanStatus::Scanning equals the number of packages whose scan has finished.
C16_CounterCountsFinishedPackages ==
    status.phase = "Scanning" => status.current_package = Cardinality(Finished)

\* C16, amended: the counter is incremented as each package's worker starts:
\* during the scanning phase it equals the number of packages whose worker has
\* done its progress update, which is never less than the number of packages
\* whose scan has finished.
C16_CounterCountsStartedPackages ==
    status.phase = "Scanning" =>
        /\ status.current_package = Cardinality(Started)
        /\ status.current_package >= Cardinality(Finished)
        /\ Started # {}

\* C16 witness: the counter has reached the number of packages while no
\* package's scan has finished
C16_Witness ==
    /\ status.phase = "Scanning"
    /\ status.current_package = NumPackages
    /\ Finished = {}

\* C19: the workers' updates of the status cell are atomic: the workers that
\* have done theirs hold pairwise distinct numbers, which are 0 .. k-1 for k
\* such workers; the counter is k, never above total_packages, equal to it
\* once every worker has done its update, and it never goes down.
C19_ProgressUpdatesAreNotLost ==
    /\ [](\A p, q \in Started : p # q => current_package[p] # current_package[q])
    /\ []({current_package[p] : p \in Started} = 0..(Cardinality(Started) - 1))
    /\ [](status.phase = "Scanning" =>
             /\ status.total_packages = NumPackages
             /\ status.current_package <= status.total_packages
             /\ status.current_package = Cardinality(Started)
             /\ Started = Packages => status.current_package = NumPackages)
    /\ [][(status.phase = "Scanning" /\ status'.phase = "Scanning") =>
             status'.current_package >= status.current_package]_vars

\* C19 witness: every worker has done its update, the last of them after
\* another worker had finished its package
C19_Witness ==
    /\ status.phase = "Scanning"
    /\ Started = Packages
    /\ status.current_package = NumPackages
    /\ \E p, q \in Packages :
          /\ wpc[p] = "done"
          /\ wpc[q] = "open"
          /\ current_package[q] = NumPackages - 1

\* the place of a phase in the order of a rebuild
Rank(phase) ==
    CASE phase = "LoadingCache" -> 1
      [] phase = "CreatingScanner" -> 2
      [] phase = "Scanning" -> 3
      [] phase = "TransformGathering" -> 4
      [] phase = "TransformApplying" -> 5
      [] phase = "WritingCache" -> 6
      [] phase = "None" -> 7

\* C20: the status moves only forward through LoadingCache (if a cache file
\* existed), CreatingScanner, Scanning, TransformGathering, TransformApplying,
\* WritingCache, None: a change of phase goes to a later phase (the first one
\* leaves the None the run started with), within Scanning the counter grows,
\* and the status is None when load_tag_cache has returned.
C20_StatusMovesForward ==
    /\ [][status' # status =>
             \/ status.phase = "None" /\ pc \in {"start", "rebuild"}
             \/ Rank(status'.phase) > Rank(status.phase)
             \/ /\ status.phase = "Scanning" /\ status'.phase = "Scanning"
                /\ status'.current_package > status.current_package]_vars
    /\ [](pc = "done" => status = St("None"))
    /\ [](status.phase \in {"TransformGathering", "TransformApplying", "WritingCache"} =>
             Finished = Packages)

\* C20 witness: a rebuild that followed a stored cache has returned
C20_Witness ==
    /\ pc = "done"
    /\ writes = 1
    /\ "loading" \in log
    /\ status = St("None")
    /\ Finished = Packages

-----------------------------------------------------------------------------
(* SpecMerge: the workers' entry loops and the merge of their results, for
   packages whose scanned entries have any index the reader can return *)

\* get_all_by_type returns the index as usize: indices of the model's
\* packages, and indices at and above 2^16
WideEntries == {0, 1, 65536, 65537}

\* the sorted lists of at most NumEntries scanned entries of one package
TagLists ==
    {<<>>} \cup {<<a>> : a \in WideEntries}
    \cup {q \in [1..NumEntries -> WideEntries] : \A k \in 1..(NumEntries - 1) : q[k] < q[k + 1]}

\* the workers have opened their packages and listed the entries (line 423)
InitMerge ==
    /\ version \in PackageVersions
    /\ hash64_table = [h \in {<<0, 0, 0, 32, 0, 0, 0, 32>>} |-> TagHashNew(NumPackages, 0)]
    /\ mtime = 0
    /\ disk = NoFile
    /\ archive = BaseArchive
    /\ pc = "scanning"
    /\ status = Scanning(NumPackages, NumPackages)
    /\ scanner_context = CreateScannerContext(PackageEntryIndex, hash64_table, StringMapKeys)
    /\ data = <<>>
    /\ r = DefaultScanResult
    /\ wpc = [p \in Packages |-> "scan"]
    /\ all_tags \in [Packages -> TagLists]
    /\ args = all_tags
    /\ results = [p \in Packages |-> EmptyMap]
    /\ current_package = [p \in Packages |-> p - 1]
    /\ returned = <<>>
    /\ writes = 0
    /\ log = {}
    /\ unread = {}
    /\ IdleTransform

NextMerge ==
    \/ \E p \in Packages : WorkerEntry(p)
    \/ \E p \in Packages : WorkerReturn(p)
    \/ CollectResults

SpecMerge == InitMerge /\ [][NextMerge]_vars

\* the scanned (package, entry index) pairs of a SpecMerge run
ScannedPairs == UNION {{<<p, t>> : t \in Range(args[p])} : p \in Packages}

\* C17: the merge of the per-package results is a disjoint union: no two
\* scanned (package, entry index) pairs have the same key, so the merged map
\* holds one record per scanned entry.
C17_MergeIsDisjointUnion ==
    pc = "transform" =>
        /\ \A x, y \in ScannedPairs :
              x # y => TagHashNew(x[1], x[2]) # TagHashNew(y[1], y[2])
        /\ Cardinality(DOMAIN cache) = Cardinality(ScannedPairs)

-----------------------------------------------------------------------------
(* SpecBlob: read_raw_string_blob on a marker at `offset`, a length prefix
   and a content of at most MaxBlob bytes *)

\* the bytes of a blob's content: null, 'a', 'b'
BlobBytes == {0, 97, 98}

\* the length prefix of the generation for a length n below 256, and for a
\* length above isize::MAX (n = -1), which only the 64-bit prefix can hold
LengthPrefix(d1, n) ==
    IF d1 THEN <<0, 0, 0, n>>
    ELSE IF n < 0 THEN <<0, 0, 0, 0, 0, 0, 0, 128>>
    ELSE <<n, 0, 0, 0, 0, 0, 0, 0>>

\* the data of an entry with a blob at offset: padding, the marker in the
\* byte order of the generation's length prefix, the prefix, the content
BlobData(offset, d1, n, content) ==
    [k \in 1..offset |-> 32]
    \o Enc(IF d1 THEN "Big" ELSE "Little", RawStringMagic)
    \o LengthPrefix(d1, n) \o content

InitBlob ==
    /\ version \in PackageVersions
    /\ hash64_table = EmptyMap
    /\ mtime = 0
    /\ pc = "blob"
    /\ status = St("None")
    /\ scanner_context = NoContext
    /\ \E offset \in {0, 4}, content \in UNION {[1..n -> BlobBytes] : n \in 0..MaxBlob} :
          \E n \in (IF IsD1(version) THEN {} ELSE {-1}) \cup 0..(Len(content) + 1) :
             /\ args = [offset |-> offset, buffer_size |-> n]
             /\ data = BlobData(offset, IsD1(version), n, content)
    /\ r = <<>>
    /\ IdleLoad
    /\ IdleTransform

\* one call of read_raw_string_blob(data, offset); the allocation of the
\* buffer panics for a length above isize::MAX
ReadRawStringBlobCall ==
    /\ pc = "blob"
    /\ IF BlobPanics(data, args.offset, IsD1(version))
       THEN pc' = "panicked" /\ r' = r
       ELSE pc' = "blob_read" /\ r' = ReadRawStringBlob(data, args.offset, IsD1(version))
    /\ UNCHANGED <<version, hash64_table, mtime, disk, status, scanner_context, wpc,
                   all_tags, results, current_package, cache, direct_reference_cache,
                   new_cache, todo, returned, writes, log, unread, archive, args, data>>

NextBlob == ReadRawStringBlobCall

SpecBlob == InitBlob /\ [][NextBlob]_vars

\* the offset of the buffer's first byte: blob offset + 8 for the legacy
\* generation, + 12 for the current one
BufferBase == args.offset + (IF IsD1(version) THEN 8 ELSE 12)

\* the length-prefixed buffer, when it lies within the data
BlobBuffer == SubSeq(data, BufferBase + 1, BufferBase + args.buffer_size)
BlobInData == args.buffer_size >= 0 /\ BufferBase + args.buffer_size <= Len(data)

\* the runs the null bytes split the buffer into, each named by the index
\* (from 0) of its first byte: a run starts at 0 and after every null byte and
\* goes up to the next null byte or the end
RunStarts == {0} \cup {i \in 1..Len(BlobBuffer) : BlobBuffer[i] = 0}
RunEnd(s) ==
    IF \E j \in (s + 1)..Len(BlobBuffer) : BlobBuffer[j] = 0
    THEN (CHOOSE j \in (s + 1)..Len(BlobBuffer) :
             BlobBuffer[j] = 0 /\ \A k \in (s + 1)..(j - 1) : BlobBuffer[k] # 0) - 1
    ELSE Len(BlobBuffer)
Run(s) == SubSeq(BlobBuffer, s + 1, RunEnd(s))

\* r lists exactly the runs of S, in order, each with its absolute offset
ListsRuns(S) ==
    /\ Len(r) = Cardinality(S)
    /\ \A k \in 1..Len(r) : \E s \in S : r[k] = <<BufferBase + s, Run(s)>>
    /\ \A k \in 1..(Len(r) - 1) : r[k][1] < r[k + 1][1]

-----------------------------------------------------------------------------
(* decode_text (src/text.rs) *)

\* the length of the run a first byte announces (the match of lines 294-311)
RunLength(b) == IF b <= 191 THEN 1 ELSE IF b <= 223 THEN 2 ELSE IF b <= 239 THEN 3 ELSE 4

\* the loop of lines 293-312 from off on: data_clone[off + n - 1] += cipher as
\* u8. The index panics when the buffer ends inside the run; the addition
\* panics on overflow in a build with overflow checks and wraps in one
\* without. The result is <<data_clone>>, or <<>> for a panic.
RECURSIVE ShiftLoop(_, _, _, _, _)
ShiftLoop(d, data_clone, off, cipher8, overflow_checks) ==
    IF off >= Len(d) THEN <<data_clone>>
    ELSE LET last == off + RunLength(d[off + 1]) - 1
         IN  IF last >= Len(d) THEN <<>>
             ELSE IF overflow_checks /\ data_clone[last + 1] + cipher8 > 255 THEN <<>>
             ELSE ShiftLoop(d,
                            [data_clone EXCEPT ![last + 1] = (@ + cipher8) % 256],
                            off + RunLength(d[off + 1]), cipher8, overflow_checks)

\* b is a continuation byte within lo..hi
Cont(q, i, lo, hi) == i <= Len(q) /\ q[i] >= lo /\ q[i] <= hi

\* String::from_utf8_lossy from byte i on, as code points: a well-formed
\* sequence gives its code point, a maximal ill-formed prefix gives U+FFFD
RECURSIVE Utf8Lossy(_, _)
Utf8Lossy(q, i) ==
    IF i > Len(q) THEN <<>>
    ELSE LET b == q[i]
             lo2 == IF b = 224 THEN 160 ELSE IF b = 240 THEN 144 ELSE 128
             hi2 == IF b = 237 THEN 159 ELSE IF b = 244 THEN 143 ELSE 191
         IN  IF b < 128 THEN <<b>> \o Utf8Lossy(q, i + 1)
             ELSE IF b < 194 \/ b > 244 THEN <<65533>> \o Utf8Lossy(q, i + 1)
             ELSE IF ~Cont(q, i + 1, lo2, hi2) THEN <<65533>> \o Utf8Lossy(q, i + 1)
             ELSE IF b < 224
                  THEN <<(b % 32) * 64 + (q[i + 1] % 64)>> \o Utf8Lossy(q, i + 2)
             ELSE IF ~Cont(q, i + 2, 128, 191) THEN <<65533>> \o Utf8Lossy(q, i + 2)
             ELSE IF b < 240
                  THEN <<(b % 16) * 4096 + (q[i + 1] % 64) * 64 + (q[i + 2] % 64)>>
                       \o Utf8Lossy(q, i + 3)
             ELSE IF ~Cont(q, i + 3, 128, 191) THEN <<65533>> \o Utf8Lossy(q, i + 3)
             ELSE <<(b % 8) * 262144 + (q[i + 1] % 64) * 4096 + (q[i + 2] % 64) * 64
                    + (q[i + 3] % 64)>> \o Utf8Lossy(q, i + 4)

\* decode_text(data, cipher): <<the String>>, or <<>> for a panic
DecodeText(d, cipher, overflow_checks) ==
    IF cipher = 0 THEN <<Utf8Lossy(d, 1)>>
    ELSE LET shifted == ShiftLoop(d, d, 0, cipher % 256, overflow_checks)
         IN  IF shifted = <<>> THEN <<>> ELSE <<Utf8Lossy(shifted[1], 1)>>

\* the bytes of SpecText's buffers: 'A', the last byte of a one-byte run, the
\* first bytes of runs of 2, 3 and 4 bytes, a continuation byte, and 0xFF
TextBytes == {65, 191, 195, 226, 240, 130, 255}

\* cipher shifts: none, 1, one that overflows 'A', and two above 255
Ciphers == {0, 1, 191, 256, 257}

InitText ==
    /\ version \in {"Destiny2Lightfall"}
    /\ hash64_table = EmptyMap
    /\ mtime = 0
    /\ pc = "text"
    /\ status = St("None")
    /\ scanner_context = NoContext
    /\ data \in UNION {[1..n -> TextBytes] : n \in 0..MaxText}
    /\ args \in [cipher : Ciphers, overflow_checks : BOOLEAN]
    /\ r = <<>>
    /\ IdleLoad
    /\ IdleTransform

\* one call of decode_text(data, cipher)
DecodeTextCall ==
    /\ pc = "text"
    /\ r' = DecodeText(data, args.cipher, args.overflow_checks)
    /\ pc' = IF r' = <<>> THEN "panicked" ELSE "decoded"
    /\ UNCHANGED <<version, hash64_table, mtime, disk, status, scanner_context, wpc,
                   all_tags, results, current_package, cache, direct_reference_cache,
                   new_cache, todo, returned, writes, log, unread, archive, args, data>>

NextText == DecodeTextCall

SpecText == InitText /\ [][NextText]_vars

\* the first bytes of the runs of the buffer, as indices from 1: the walk
\* from the left in steps of the run length the first byte announces
RECURSIVE RunFirsts(_)
RunFirsts(i) == IF i > Len(data) THEN {} ELSE {i} \cup RunFirsts(i + RunLength(data[i]))

\* the indices of the last bytes of the runs that lie within the buffer
RunLasts == {i + RunLength(data[i]) - 1 : i \in RunFirsts(1)} \cap 1..Len(data)

\* the buffer with the shift added, modulo 256, to the last byte of each run
ShiftedData ==
    [i \in 1..Len(data) |->
        IF i \in RunLasts /\ args.cipher # 0 THEN (data[i] + args.cipher) % 256 ELSE data[i]]

\* C14: decode_text returns, for every buffer and every shift, the decoding of
\* the buffer with the shift added modulo 256 to the last byte of each run of
\* 1, 2, 3 or 4 bytes and every other byte unchanged (no byte changed for
\* shift 0).
C14_ShiftsLastByteOfEachRun ==
    pc # "text" =>
        /\ pc = "decoded"
        /\ r = <<Utf8Lossy(ShiftedData, 1)>>

-----------------------------------------------------------------------------
(* _TablePointer and _RelPointer (src/text.rs), on a Cursor over a buffer *)

\* a number that stands for every magnitude the model does not tell apart
TooBig == 1073741824

\* the bytes of the integer of the given width at pos, most significant first
FieldBytes(d, pos, endian, width) ==
    LET b == SubSeq(d, pos + 1, pos + width)
    IN  IF endian = "Big" THEN b ELSE [k \in 1..width |-> b[width + 1 - k]]

\* an unsigned integer from its bytes: exact when all but the last three
\* bytes are zero
UnsignedOf(b) ==
    IF \A k \in 1..(Len(b) - 3) : b[k] = 0
    THEN b[Len(b) - 2] * 65536 + b[Len(b) - 1] * 256 + b[Len(b)]
    ELSE TooBig

\* a signed integer (two's complement) from its bytes
SignedOf(b) ==
    IF b[1] < 128 THEN UnsignedOf(b)
    ELSE IF \A k \in 1..(Len(b) - 3) : b[k] = 255
         THEN (b[Len(b) - 2] * 65536 + b[Len(b) - 1] * 256 + b[Len(b)]) - 16777216
         ELSE 0 - TooBig

\* the results of a decode
Err == [kind |-> "err", data |-> <<>>, pos |-> 0]
Panic == [kind |-> "panic", data |-> <<>>, pos |-> 0]
Ok(v, pos) == [kind |-> "ok", data |-> v, pos |-> pos]

\* reader.read_type::<T>(endian) at pos for an element of `size` bytes: the
\* unit type (size 0) reads nothing, u8 gives the byte, u32 its four bytes
ReadElement(d, pos, endian, size) ==
    IF size = 0 THEN <<>>
    ELSE IF size = 1 THEN d[pos + 1]
    ELSE FieldBytes(d, pos, endian, size)

\* the loop of lines 60-62: count reads from pos on; <<>> when a read is
\* short, <<data>> otherwise
RECURSIVE ReadElements(_, _, _, _, _, _)
ReadElements(d, pos, endian, size, count, acc) ==
    IF count = 0 THEN <<acc>>
    ELSE IF size > 0 /\ pos + size > Len(d) THEN <<>>
    ELSE ReadElements(d, pos + size, endian, size, count - 1,
                      Append(acc, ReadElement(d, pos, endian, size)))

\* Vec::with_capacity(count64 as _) panics (capacity overflow) when the
\* elements take more than isize::MAX bytes
CapacityOverflow(count_bytes, size) ==
    /\ size > 0
    /\ Len(count_bytes) = 8
    /\ count_bytes[1] >= (IF size = 1 THEN 128 ELSE 32)

\* ReadTablePointer that seeks from the position after the offset field
ReadTablePointerFromSave(d, pos, endian, width, size) ==
    IF pos + 2 * width > Len(d) THEN Err
    ELSE LET count == FieldBytes(d, pos, endian, width)
             offset_save == pos + 2 * width
             address == offset_save + SignedOf(FieldBytes(d, pos + width, endian, width)) + 16
         IN  IF address < 0 THEN Err
             ELSE IF CapacityOverflow(count, size) THEN Panic
             ELSE LET data_ == ReadElements(d, address, endian, size, UnsignedOf(count), <<>>)
                  IN  IF data_ = <<>> THEN Err ELSE Ok(data_[1], offset_save)

\* ReadTablePointer that fails when the table's address is past the buffer's end
ReadTablePointerStrict(d, pos, endian, width, size) ==
    IF pos + 2 * width > Len(d) THEN Err
    ELSE LET count == FieldBytes(d, pos, endian, width)
             offset_base == pos + width
             offset_save == offset_base + width
             address == offset_base + SignedOf(FieldBytes(d, offset_base, endian, width)) + 16
         IN  IF address < 0 \/ address > Len(d) THEN Err
             ELSE IF CapacityOverflow(count, size) THEN Panic
             ELSE LET data_ == ReadElements(d, address, endian, size, UnsignedOf(count), <<>>)
                  IN  IF data_ = <<>> THEN Err ELSE Ok(data_[1], offset_save)

\* _TablePointer::read_options (lines 43-72) with the cursor at pos, for
\* count and offset fields of `width` bytes and elements of `size` bytes:
\* count, offset_base, offset, offset_save; seek to offset_base + offset + 16
\* (an error when negative, allowed when past the end); the elements; seek
\* back to offset_save
ReadTablePointer(d, pos, endian, width, size) ==
    IF pos + 2 * width > Len(d) THEN Err
    ELSE LET count == FieldBytes(d, pos, endian, width)
             offset_base == pos + width
             offset_save == offset_base + width
             address == offset_base + SignedOf(FieldBytes(d, offset_base, endian, width)) + 16
         IN  IF address < 0 THEN Err
             ELSE IF CapacityOverflow(count, size) THEN Panic
             ELSE LET data_ == ReadElements(d, address, endian, size, UnsignedOf(count), <<>>)
                  IN  IF data_ = <<>> THEN Err ELSE Ok(data_[1], offset_save)

\* _RelPointer::read_options (lines 140-163) with the cursor at pos:
\* offset_base, offset, offset_save; seek to offset_base + offset; the value;
\* seek back to offset_save
ReadRelPointer(d, pos, endian, width, size) ==
    IF pos + width > Len(d) THEN Err
    ELSE LET offset_base == pos
             offset_save == pos + width
             address == offset_base + SignedOf(FieldBytes(d, pos, endian, width))
         IN  IF address < 0 THEN Err
             ELSE LET data_ == ReadElements(d, address, endian, size, 1, <<>>)
                  IN  IF data_ = <<>> THEN Err ELSE Ok(data_[1][1], offset_save)

-----------------------------------------------------------------------------
(* SpecPointer: two table pointers in a row, or a relative pointer, decoded
   from an encoded stream *)

\* an unsigned field as stored: a value below 256, or (TooBig) a value above
\* isize::MAX
EncUnsigned(endian, width, v) ==
    Enc(endian, [k \in 1..width |->
                    IF v >= TooBig THEN (IF k = 1 THEN 128 ELSE 0)
                    ELSE IF k = width THEN v ELSE 0])

\* a signed field as stored (two's complement), for a value within -255..255
EncSigned(endian, width, v) ==
    Enc(endian, [k \in 1..width |->
                    IF v >= 0 THEN (IF k = width THEN v ELSE 0)
                    ELSE IF k = width THEN 256 + v ELSE 255])

\* the stream: pos bytes before the fields, count and offset of the first
\* table, count and offset of the second, and tail more bytes; every byte
\* outside the fields differs from its neighbours
Stream(a, tail) ==
    [k \in 1..a.pos |-> 200 + k]
    \o EncUnsigned(a.endian, a.width, a.count[1]) \o EncSigned(a.endian, a.width, a.offset[1])
    \o EncUnsigned(a.endian, a.width, a.count[2]) \o EncSigned(a.endian, a.width, a.offset[2])
    \o [k \in 1..tail |-> 10 + k]

\* the offsets of the first pointer: they put its target before the buffer,
\* within it and past its end
Offsets == {-30, -16, -8, 0, 8, 40}

InitPointer ==
    /\ version = "Destiny2Lightfall"
    /\ hash64_table = EmptyMap
    /\ mtime = 0
    /\ pc = "stream"
    /\ status = St("None")
    /\ scanner_context = NoContext
    /\ args \in [pos : {0, 2}, endian : {"Big", "Little"}, width : {4, 8}, size : {0, 1, 4},
                 count : {0, 1, 2, TooBig} \X {0, 1}, offset : Offsets \X {-8, 8}]
    /\ args.count[1] = TooBig => (args.width = 8 /\ args.size > 0)
    /\ \E tail \in {0, 4, MaxTail} : data = Stream(args, tail)
    /\ r = <<>>
    /\ IdleLoad
    /\ IdleTransform

\* the cursor: at the first field, then where the last decode left it
CursorPos == IF r = <<>> THEN args.pos ELSE r[Len(r)].pos

\* one field of type _TablePointer is decoded at the cursor (as the derived
\* BinRead of StringData does for its fields, one after the other)
ReadTablePointerCall ==
    /\ pc \in {"stream", "table1"}
    /\ LET res == ReadTablePointer(data, CursorPos, args.endian, args.width, args.size)
       IN  /\ r' = Append(r, res)
           /\ pc' = IF res.kind = "panic" THEN "panicked"
                    ELSE IF res.kind = "err" THEN "failed"
                    ELSE IF pc = "stream" THEN "table1" ELSE "table2"
    /\ UNCHANGED <<version, hash64_table, mtime, disk, status, scanner_context, wpc,
                   all_tags, results, current_package, cache, direct_reference_cache,
                   new_cache, todo, returned, writes, log, unread, archive, args, data>>

\* the offset field of the first table is decoded as a _RelPointer
ReadRelPointerCall ==
    /\ pc = "stream"
    /\ LET res == ReadRelPointer(data, args.pos + args.width, args.endian, args.width,
                                 args.size)
       IN  /\ r' = <<res>>
           /\ pc' = IF res.kind = "err" THEN "rel_failed" ELSE "rel"
    /\ UNCHANGED <<version, hash64_table, mtime, disk, status, scanner_context, wpc,
                   all_tags, results, current_package, cache, direct_reference_cache,
                   new_cache, todo, returned, writes, log, unread, archive, args, data>>

NextPointer == ReadTablePointerCall \/ ReadRelPointerCall

SpecPointer == InitPointer /\ [][NextPointer]_vars

\* table k of the stream: the position P1 of its offset field, the address
\* P1 + offset + 16 of its records, the end of its inline bytes
OffsetPos(k) == args.pos + (2 * k - 1) * args.width
TableAddress(k) == OffsetPos(k) + args.offset[k] + 16
InlineEnd(k) == args.pos + 2 * k * args.width

\* the element of args.size bytes stored at address a of the stream
StoredAt(a) ==
    IF args.size = 0 THEN <<>>
    ELSE IF args.size = 1 THEN data[a + 1]
    ELSE Enc(args.endian, SubSeq(data, a + 1, a + args.size))

\* the records of table k lie within the stream
TableStored(k) ==
    /\ args.count[k] < TooBig
    /\ TableAddress(k) >= 0
    /\ TableAddress(k) + args.count[k] * args.size <= Len(data)

\* the decodes of tables done so far
TablesDecoded == IF pc \in {"stream", "rel", "rel_failed"} THEN {} ELSE 1..Len(r)

\* C13: a _TablePointer decoded from a stream that holds the count, then the
\* offset at P1, with count records stored at P1 + offset + 16, yields those
\* records in order and leaves the cursor right after the offset field, so
\* the next table's decode starts where this one's inline bytes ended.
C13_TableRoundTrip ==
    \A k \in TablesDecoded :
        /\ TableStored(k) =>
              /\ r[k].kind = "ok"
              /\ Len(r[k].data) = args.count[k]
              /\ \A j \in 1..args.count[k] :
                    r[k].data[j] = StoredAt(TableAddress(k) + (j - 1) * args.size)
              /\ r[k].pos = InlineEnd(k)
        /\ r[k].kind = "ok" => r[k].pos = InlineEnd(k)
        /\ (k = 2 /\ r[2].kind = "ok") => r[1].pos = OffsetPos(2) - args.width

\* C13 witness: two tables decoded in a row, the first with two records of
\* four bytes, the second with one
C13_Witness ==
    /\ pc = "table2"
    /\ args.size = 4
    /\ Len(r[1].data) = 2
    /\ r[1].data[1] # r[1].data[2]
    /\ Len(r[2].data) = 1
    /\ r[2].pos = InlineEnd(2)

\* the count and the address of decode k: a table's, or the relative
\* pointer's single value at P0 + offset
DecodeCount(k) == IF pc \in {"rel", "rel_failed"} THEN 1 ELSE args.count[k]
DecodeAddress(k) ==
    IF pc \in {"rel", "rel_failed"} THEN args.pos + args.width + args.offset[1]
    ELSE TableAddress(k)

\* the address of decode k lies outside the buffer, or its elements extend
\* past the buffer's end
OutOfBuffer(k) ==
    \/ DecodeAddress(k) < 0
    \/ DecodeAddress(k) > Len(data)
    \/ DecodeAddress(k) + DecodeCount(k) * args.size > Len(data)

-----------------------------------------------------------------------------
(* create_stringmap (src/text.rs) *)

\* A string container of the archive: the hashes its header lists, and what
\* is wrong with it: nothing, or the header does not decode (read_tag_struct),
\* or its language tag cannot be read (read_tag), or the language tag's
\* StringData does not decode, or the part of its last combination does not
\* decode (seek, read_le / read_be or read_exact fails), or decode_text
\* panics on that part's bytes.
Defects == {"none", "header", "language", "string_data", "part", "text_panic"}
HashLists == {<<StringHash>>, <<FNV1_BASE>>, <<StringHash, FNV1_BASE>>}
Containers == [bad : Defects, string_hashes : HashLists]

\* the string of combination j of container i; each combination has one part
FinalString(i, j) == <<i, j>>

\* tmp_map.entry(hash).or_default().insert(final_string)
InsertString(tmp_map, hash, final_string) ==
    [h \in DOMAIN tmp_map \cup {hash} |->
        (IF h \in DOMAIN tmp_map THEN tmp_map[h] ELSE {}) \cup
        (IF h = hash THEN {final_string} ELSE {})]

\* the loop over the (combination, hash) pairs of container i from pair j on
\* (lines 354-372 and 399-421): the legacy generation skips the empty-string
\* hash, the current one does not; a part that does not decode returns the
\* error from create_stringmap (`?`)
RECURSIVE Combinations(_, _, _, _, _)
Combinations(d1, tmp_map, c, i, j) ==
    IF j > Len(c.string_hashes) THEN [kind |-> "ok", map |-> tmp_map]
    ELSE IF d1 /\ c.string_hashes[j] = FNV1_BASE THEN Combinations(d1, tmp_map, c, i, j + 1)
    ELSE IF j = Len(c.string_hashes) /\ c.bad = "part" THEN [kind |-> "err", map |-> tmp_map]
    ELSE IF j = Len(c.string_hashes) /\ c.bad = "text_panic"
         THEN [kind |-> "panic", map |-> tmp_map]
    ELSE Combinations(d1, InsertString(tmp_map, c.string_hashes[j], FinalString(i, j)),
                      c, i, j + 1)

\* the body of the loop over the containers (lines 344-372 and 387-421) for
\* container i: header and language tag failures `continue`; a StringData
\* failure continues in the legacy generation and returns the error in the
\* current one
Container(d1, tmp_map, c, i) ==
    IF c.bad \in {"header", "language"} THEN [kind |-> "ok", map |-> tmp_map]
    ELSE IF c.bad = "string_data"
         THEN [kind |-> IF d1 THEN "ok" ELSE "err", map |-> tmp_map]
    ELSE Combinations(d1, tmp_map, c, i, 1)

\* every archive of at most MaxContainers string containers
InitStrings ==
    /\ version \in PackageVersions
    /\ hash64_table = EmptyMap
    /\ mtime = 0
    /\ pc = "strings"
    /\ status = St("CreatingScanner")
    /\ scanner_context = NoContext
    /\ args \in UNION {[1..n -> Containers] : n \in 0..MaxContainers}
    /\ data = 1
    /\ r = EmptyMap
    /\ IdleLoad
    /\ IdleTransform

\* create_stringmap for a generation without string loading (lines 328-334)
NoStringLoading ==
    /\ pc = "strings"
    /\ version = "DestinyRiseOfIron"
    /\ pc' = "strings_ok"
    /\ UNCHANGED <<version, hash64_table, mtime, disk, status, scanner_context, wpc,
                   all_tags, results, current_package, cache, direct_reference_cache,
                   new_cache, todo, returned, writes, log, unread, archive, args, data, r>>

\* one iteration of the loop over the containers: `data` is the number of
\* the container, r is tmp_map
StringContainerStep ==
    /\ pc = "strings"
    /\ version # "DestinyRiseOfIron"
    /\ data <= Len(args)
    /\ LET res == Container(IsD1(version), r, args[data], data)
       IN  /\ r' = res.map
           /\ pc' = IF res.kind = "ok" THEN "strings"
                    ELSE IF res.kind = "err" THEN "strings_err" ELSE "panicked"
    /\ data' = data + 1
    /\ UNCHANGED <<version, hash64_table, mtime, disk, status, scanner_context, wpc,
                   all_tags, results, current_package, cache, direct_reference_cache,
                   new_cache, todo, returned, writes, log, unread, archive, args>>

\* lines 375-378 and 424-427: Ok with the collected map
StringmapReturn ==
    /\ pc = "strings"
    /\ version # "DestinyRiseOfIron"
    /\ data > Len(args)
    /\ pc' = "strings_ok"
    /\ UNCHANGED <<version, hash64_table, mtime, disk, status, scanner_context, wpc,
                   all_tags, results, current_package, cache, direct_reference_cache,
                   new_cache, todo, returned, writes, log, unread, archive, args, data, r>>

NextStrings == NoStringLoading \/ StringContainerStep \/ StringmapReturn

SpecStrings == InitStrings /\ [][NextStrings]_vars

\* the generations create_stringmap loads strings for
LoadsStrings == version # "DestinyRiseOfIron"

\* C11: create_stringmap never aborts for one bad tag: whatever fails to
\* decode in a container (the container, its language tag, the StringData or
\* a part), the run ends with Ok, and the strings of every sound container
\* are in the map.
C11_BadTagIsSkipped ==
    /\ pc # "strings_err"
    /\ (pc = "strings_ok" /\ LoadsStrings) =>
          \A i \in 1..Len(args) : \A j \in 1..Len(args[i].string_hashes) :
             (args[i].bad = "none" /\ args[i].string_hashes[j] # FNV1_BASE) =>
                /\ args[i].string_hashes[j] \in DOMAIN r
                /\ FinalString(i, j) \in r[args[i].string_hashes[j]]

\* C12: the empty-string hash 0x811c9dc5 is never a key of the map
\* create_stringmap returns, in either generation.
C12_EmptyStringHashIsNoKey ==
    pc = "strings_ok" => FNV1_BASE \notin DOMAIN r

----------------------------------------------------------------------------
(* SpecReload: load_tag_cache called again after it returned, on the cache
   file and the package directory the run before left behind *)

\* the number of calls of load_tag_cache in a behaviour
MaxRuns == 2

\* line 295: the next call of load_tag_cache.  The file, the packages and the
\* package directory are what the call before left; `args` keeps, for each
\* call that returned, the TagCache it returned, whether it wrote the file,
\* and the directory's modification time when it returned.
LoadTagCacheAgain ==
    /\ pc = "done"
    /\ Len(args) + 1 < MaxRuns
    /\ args' = Append(args, [returned |-> returned[1], writes |-> writes, mtime |-> mtime])
    /\ pc' = "start"
    /\ scanner_context' = NoContext
    /\ wpc' = [p \in Packages |-> "idle"]
    /\ all_tags' = [p \in Packages |-> <<>>]
    /\ results' = [p \in Packages |-> EmptyMap]
    /\ current_package' = [p \in Packages |-> 0]
    /\ cache' = EmptyMap
    /\ direct_reference_cache' = EmptyMap
    /\ new_cache' = DefaultTagCache
    /\ todo' = {}
    /\ returned' = <<>>
    /\ writes' = 0
    /\ log' = {}
    /\ unread' = {}
    /\ UNCHANGED <<version, hash64_table, mtime, disk, status, archive, data, r>>

NextReload == Next \/ LoadTagCacheAgain

SpecReload == InitLoad /\ [][NextReload]_vars

\* the call before this one rebuilt the cache and wrote the file
AfterRebuild == args # <<>> /\ args[Len(args)].writes = 1

\* the TagCache the call before this one returned
Previous == args[Len(args)].returned

\* C21: the stored timestamp is the package directory's modification time as
\* read at the end of the transform, after every package was scanned, and the
\* file holds the TagCache so stamped; and when the call before rebuilt and
\* wrote the cache and the directory's modification time is still the one
\* read then, the decision of this call is to return the stored cache, which
\* equals the one the rebuild returned, without a scan and without a write.
C21_RebuiltCacheIsReused ==
    /\ [][(pc = "timestamp" /\ pc' # pc) =>
             /\ \A p \in Packages : wpc[p] = "done"
             /\ new_cache'.timestamp = PkgTimestamp]_vars
    /\ []((pc = "done" /\ writes = 1) =>
             /\ disk = CacheFile(new_cache)
             /\ returned = <<new_cache>>)
    /\ [][(pc = "loading" /\ AfterRebuild /\ PkgTimestamp = Previous.timestamp) =>
             /\ pc' = "done"
             /\ returned' = <<Previous>>
             /\ UNCHANGED <<disk, scanner_context, wpc, results, cache, writes>>]_vars

\* C21 witness: the second call returned, without a write, the cache the
\* first call had built from the packages and stamped with the latest time
C21_Witness ==
    /\ AfterRebuild
    /\ pc = "done"
    /\ writes = 0
    /\ returned = <<Previous>>
    /\ Previous.timestamp = MaxTime
    /\ ScannedTags \subseteq DOMAIN Previous.hashes
    /\ scanner_context = NoContext

\* C21 as stated: when the call before rebuilt and wrote the cache and the
\* directory's modification time has not changed since that call returned,
\* this call returns the stored cache.
C21_UnchangedSinceReturnIsReused ==
    [][(pc = "loading" /\ AfterRebuild /\ mtime = args[Len(args)].mtime) =>
          /\ pc' = "done"
          /\ returned' = <<Previous>>]_vars

----------------------------------------------------------------------------
(* load_tag_cache: a cache file that does not decode *)

\* C22: when the cache file exists and does not decode, the decision neither
\* ends the process nor returns anything: it logs the file as invalid and
\* leads to the rebuild; the run never takes the exit of line 362, returns
\* nothing before the rebuild has run, and a run that returns has built the
\* context, scanned every package and replaced the file by the new cache,
\* which is what it returns.
C22_InvalidCacheIsRebuilt ==
    /\ [][(pc = "loading" /\ disk = BadFile) =>
             /\ pc' = "rebuild"
             /\ returned' = <<>>
             /\ "cache_invalid" \in log'
             /\ UNCHANGED <<disk, status>>]_vars
    /\ []("cache_invalid" \in log =>
             /\ pc # "exited"
             /\ "future_cache" \notin log
             /\ pc # "done" => returned = <<>>
             /\ pc = "done" => FullRebuild /\ disk = CacheFile(returned[1]))

\* C22 witness: a run that found a file that does not decode has returned,
\* and the file now holds the cache built from the packages
C22_Witness ==
    /\ pc = "done"
    /\ "cache_invalid" \in log
    /\ disk.kind = "valid"
    /\ returned = <<disk.content>>
    /\ ScannedTags \subseteq DOMAIN disk.content.hashes
    /\ writes = 1

----------------------------------------------------------------------------
(* transform_tag_cache: the back-references are exactly the forward ones *)

\* the number of occurrences of x in the sequence q
Occurrences(q, x) == Cardinality({k \in DOMAIN q : q[k] = x})

\* the number of 32-bit references of the record v to T, and of its 64-bit
\* references that hash64_table resolves to T
Refs32To(v, T) == Cardinality({k \in DOMAIN v.file_hashes : v.file_hashes[k].hash = T})
Refs64To(v, T) ==
    Cardinality({k \in DOMAIN v.file_hashes64 :
                    /\ v.file_hashes64[k].hash \in DOMAIN hash64_table
                    /\ hash64_table[v.file_hashes64[k].hash] = T})

\* C23: after transform_tag_cache, for every key T of the final cache and
\* every tag S, S occurs in T's references as many times as S's scanned
\* record has 32-bit references to T plus 64-bit references resolving to T
\* (none when S was not scanned); every scanned record keeps its successful
\* flag and its file_hashes, file_hashes64, string_hashes and raw_strings;
\* and the keys are the scanned tags and the referenced targets.
C23_BackReferencesAreExact ==
    pc = "transformed" =>
        /\ \A T \in DOMAIN new_cache.hashes :
              /\ Range(new_cache.hashes[T].references) \subseteq DOMAIN cache
              /\ \A S \in DOMAIN cache :
                    Occurrences(new_cache.hashes[T].references, S)
                        = Refs32To(cache[S], T) + Refs64To(cache[S], T)
        /\ \A S \in DOMAIN cache :
              /\ new_cache.hashes[S].successful = cache[S].successful
              /\ new_cache.hashes[S].file_hashes = cache[S].file_hashes
              /\ new_cache.hashes[S].file_hashes64 = cache[S].file_hashes64
              /\ new_cache.hashes[S].string_hashes = cache[S].string_hashes
              /\ new_cache.hashes[S].raw_strings = cache[S].raw_strings
        /\ DOMAIN new_cache.hashes =
              DOMAIN cache \cup
              UNION {Targets32(cache[S]) \cup Targets64(cache[S]) : S \in DOMAIN cache}

\* C23 witness: a finished transform where a scanned tag refers to itself and
\* refers to one target both by a 32-bit and by a 64-bit reference, which the
\* target's list holds twice, beside a scanned tag nobody refers to, which
\* has string hashes and an empty list
C23_Witness ==
    /\ pc = "transformed"
    /\ \E S \in DOMAIN cache : \E T \in DOMAIN new_cache.hashes \ {S} :
          /\ Refs32To(cache[S], S) = 1
          /\ Refs32To(cache[S], T) = 1
          /\ Refs64To(cache[S], T) = 1
          /\ Occurrences(new_cache.hashes[T].references, S) = 2
          /\ new_cache.hashes[S].references = <<S>>
    /\ \E U \in DOMAIN cache :
          /\ new_cache.hashes[U].references = <<>>
          /\ ~new_cache.hashes[U].successful

----------------------------------------------------------------------------
(* decode_text: totality *)

\* C24: decode_text returns a string for every buffer and every shift: once
\* the call is over, a String is its result.
C24_DecodeTextAlwaysReturns ==
    pc # "text" => (pc = "decoded" /\ Len(r) = 1)

\* a call of decode_text in a build without overflow checks, with a shift
\* that is not 0, on a buffer whose last run is cut short, has panicked
C24_CutRunPanics ==
    /\ pc = "panicked"
    /\ ~args.overflow_checks
    /\ args.cipher % 256 # 0
    /\ data # <<>>
    /\ data[Len(data)] >= 192

----------------------------------------------------------------------------
(* TagHexView (src/gui/hexview.rs): the array ranges of a tag's data and the
   row blocks the view shows *)

\* the number of 32-bit words of SpecHex's input buffers
MaxWords == 5

\* the values find_all_array_ranges takes for array markers (lines 316-321)
\* and for raw-string markers (line 326)
ArrayMarkers ==
    {<<128, 128, 159, 189>>, <<128, 128, 159, 184>>, <<128, 128, 1, 132>>, <<128, 128, 1, 66>>}
StringMarkers == {<<128, 128, 0, 101>>, <<128, 128, 0, 203>>}

\* lines 28-32 of TagHexView::new: the data padded with zeros to a multiple of 16
Pad16(d) ==
    IF Len(d) % 16 = 0 THEN d ELSE d \o [k \in 1..(16 - (Len(d) % 16)) |-> 0]

\* lines 35-38: chunks_exact(16)
Rows(d) == [k \in 1..(Len(d) \div 16) |-> SubSeq(d, 16 * (k - 1) + 1, 16 * k)]

\* lines 298-330: the 32-bit words from word i on, in the version's byte
\* order; the offsets after the array markers, ascending
RECURSIVE ArrayOffsets(_, _, _)
ArrayOffsets(d, endian, i) ==
    IF 4 * i + 4 > Len(d) THEN <<>>
    ELSE (IF U32FromEndian(endian, d, 4 * i) \in ArrayMarkers THEN <<4 * i + 4>> ELSE <<>>)
         \o ArrayOffsets(d, endian, i + 1)

\* lines 312, 326-328: strings_offset, <<>> for None; the last marker wins
RECURSIVE StringsOffset(_, _, _, _)
StringsOffset(d, endian, i, acc) ==
    IF 4 * i + 4 > Len(d) THEN acc
    ELSE StringsOffset(d, endian, i + 1,
                       IF U32FromEndian(endian, d, 4 * i) \in StringMarkers
                       THEN <<4 * i + 4>> ELSE acc)

\* lines 332-357 and 399-403: the TagArrayHeader at offset o, <<>> when the
\* read runs past the end: two big-endian u32 for the oldest generation,
\* otherwise a little-endian u64 and u32
ReadArrayHeader(d, v, o) ==
    IF v = "DestinyTheTakenKing"
    THEN IF o + 8 > Len(d) THEN <<>>
         ELSE <<[count |-> <<0, 0, 0, 0>> \o U32FromEndian("Big", d, o),
                 tagtype |-> U32FromEndian("Big", d, o + 4)]>>
    ELSE IF o + 12 > Len(d) THEN <<>>
         ELSE <<[count |-> U64FromEndian("Little", d, o),
                 tagtype |-> U32FromEndian("Little", d, o + 8)]>>

\* lines 359-374: filter_map over the offsets, and one ArrayRange per header
\* that could be read
RECURSIVE ArrayRangesOf(_, _, _)
ArrayRangesOf(d, v, offsets) ==
    IF offsets = <<>> THEN <<>>
    ELSE LET header == ReadArrayHeader(d, v, Head(offsets))
         IN  (IF header = <<>> THEN <<>>
              ELSE <<[start |-> Head(offsets),
                      data_start |-> Head(offsets) + 16,
                      end |-> Len(d),
                      label |-> <<>>,
                      class |-> header[1].tagtype,
                      length |-> header[1].count]>>)
             \o ArrayRangesOf(d, v, Tail(offsets))

\* lines 376-379: every range but the last ends where the next one starts
SetEnds(ranges) ==
    [i \in DOMAIN ranges |->
        IF i < Len(ranges) THEN [ranges[i] EXCEPT !.end = ranges[i + 1].start]
        ELSE ranges[i]]

\* lines 381-394: with a raw-string marker the last range ends at the
\* marker's row and a range for the raw strings is added
AddStrings(d, ranges, strings_offset) ==
    IF strings_offset = <<>> THEN ranges
    ELSE LET so == strings_offset[1]
             cut == [i \in DOMAIN ranges |->
                        IF i = Len(ranges) THEN [ranges[i] EXCEPT !.end = so - (so % 16)]
                        ELSE ranges[i]]
         IN  Append(cut, [start |-> so + 4,
                          data_start |-> so + 4,
                          end |-> Len(d),
                          label |-> <<"Raw String Data">>,
                          class |-> <<0, 0, 0, 0>>,
                          length |-> <<0, 0, 0, 0, 0, 0, 0, 0>>])

\* find_all_array_ranges(data)
FindAllArrayRanges(d, v) ==
    AddStrings(d,
               SetEnds(ArrayRangesOf(d, v, ArrayOffsets(d, EndianOf(v), 0))),
               StringsOffset(d, EndianOf(v), 0, <<>>))

\* &rows[a..b]: the slice exists when a <= b and b <= rows.len()
SliceOk(a, b, n) == a <= b /\ b <= n

\* lines 57-88: the row blocks of show, as <<from, to>> pairs: the rows before
\* the first range, then the rows of each range
RowBlocks(ranges) ==
    <<<<0, ranges[1].start \div 16>>>>
    \o [k \in DOMAIN ranges |-> <<ranges[k].data_start \div 16, ranges[k].end \div 16>>]

\* the words of SpecHex's buffers: an array marker and a raw-string marker in
\* both byte orders, and zero
HexWords ==
    {<<128, 128, 159, 189>>, <<189, 159, 128, 128>>,
     <<128, 128, 0, 101>>, <<101, 0, 128, 128>>,
     <<0, 0, 0, 0>>}

\* the bytes after the last whole word
HexTails == {<<>>, <<128>>}

\* the concatenation of a sequence of words
RECURSIVE Flatten(_)
Flatten(ws) == IF ws = <<>> THEN <<>> ELSE Head(ws) \o Flatten(Tail(ws))

InitHex ==
    /\ version \in PackageVersions
    /\ hash64_table = [h \in {<<0, 0, 0, 32, 0, 0, 0, 32>>} |-> TagHashNew(1, 0)]
    /\ mtime = 0
    /\ pc = "hex_new"
    /\ status = St("None")
    /\ scanner_context = NoContext
    /\ \E ws \in SeqsUpTo(HexWords, MaxWords), tail \in HexTails : data = Flatten(ws) \o tail
    /\ args = [rows |-> <<>>, split_arrays |-> TRUE, shown |-> <<>>]
    /\ r = <<>>
    /\ IdleLoad
    /\ IdleTransform

\* TagHexView::new (lines 27-45)
TagHexViewNew ==
    /\ pc = "hex_new"
    /\ data' = Pad16(data)
    /\ args' = [args EXCEPT !.rows = Rows(data')]
    /\ r' = FindAllArrayRanges(data', version)
    /\ pc' = "hex_view"
    /\ UNCHANGED <<version, hash64_table, mtime, disk, status, scanner_context, wpc,
                   all_tags, results, current_package, cache, direct_reference_cache,
                   new_cache, todo, returned, writes, log, unread, archive>>

\* TagHexView::show (lines 47-96): data above 16 MiB is not displayed; with
\* ranges the row blocks are sliced in order, and a slice that does not exist
\* panics; without ranges all rows are one block
TagHexViewShow ==
    /\ pc = "hex_view"
    /\ IF Len(data) > 1024 * 1024 * 16
       THEN pc' = "hex_shown" /\ args' = args
       ELSE IF args.split_arrays /\ r # <<>>
       THEN IF \A k \in DOMAIN RowBlocks(r) :
                   SliceOk(RowBlocks(r)[k][1], RowBlocks(r)[k][2], Len(args.rows))
            THEN pc' = "hex_shown" /\ args' = [args EXCEPT !.shown = RowBlocks(r)]
            ELSE pc' = "panicked" /\ args' = args
       ELSE pc' = "hex_shown" /\ args' = [args EXCEPT !.shown = <<<<0, Len(args.rows)>>>>]
    /\ UNCHANGED <<version, hash64_table, mtime, disk, status, scanner_context, wpc,
                   all_tags, results, current_package, cache, direct_reference_cache,
                   new_cache, todo, returned, writes, log, unread, archive, data, r>>

NextHex == TagHexViewNew \/ TagHexViewShow

SpecHex == InitHex /\ [][NextHex]_vars

\* C25: for every input buffer, every range of find_all_array_ranges on the
\* padded data has data_start/16 <= end/16 <= number of rows, the first
\* range's start/16 is at most the number of rows, and show does not panic.
C25_RowSlicesAreInBounds ==
    pc # "hex_new" =>
        /\ \A k \in DOMAIN r :
              /\ r[k].data_start \div 16 <= r[k].end \div 16
              /\ r[k].end \div 16 <= Len(args.rows)
        /\ r # <<>> => r[1].start \div 16 <= Len(args.rows)
        /\ pc # "panicked"

\* show has panicked on data with two array markers less than 16 bytes apart
\* and no raw-string marker
C25_CloseMarkersPanic ==
    /\ pc = "panicked"
    /\ Len(r) = 2
    /\ r[2].label = <<>>
    /\ r[2].start - r[1].start < 16
    /\ r[1].data_start \div 16 > r[1].end \div 16
====
